---- MODULE Spec2Model ----
(***************************************************************************)
(* Kiro account manager: the batch registration orchestrator of            *)
(* AutoRegisterPage.tsx over the zustand store of autoRegister.ts, and the *)
(* provisioning run autoRegisterAWS of the main process.                   *)
(*                                                                         *)
(* The renderer is single threaded: a handler runs from the event that     *)
(* wakes it (a click, an IPC reply) through every promise continuation it  *)
(* makes runnable, until the microtask queue is empty.  One action of the  *)
(* batch model is one such turn.                                           *)
(***************************************************************************)
EXTENDS Integers, Sequences, FiniteSets, TLC

\* ------------------------------------------------------------------ bounds
NumAccounts == 3
MaxRuns == 2

\* Cookie polls of the token harvest loop; the loop header says 999.
MaxPolls == 2
\* Detectors that become visible between the first one and the resume.
MaxLater == 1
\* The largest maxRetries waitAndClickWithRetry is called with.
MaxClickRetries == 3
\* The largest maxRetries waitAndFill is called with, and the longest value.
MaxFillRetries == 3
MaxValueLen == 2
\* The wait budget of a code poller in poll intervals, and the longest
\* message list a fetch returns.
WaitBudget == 2
MaxMsgs == 2
\* The longest text given to extractCode, in pieces.
MaxPieces == 3

\* The sockets io() makes in a behaviour, and the tokens connect() is given.
MaxSockets == 2
NumTokens == 2

\* The buttons on the page when the token is harvested.
MaxButtons == 3

\* The presses of the clear button.
MaxClears == 2

\* ------------------------------------------------------- program constants
MinConcurrency == 1
MaxConcurrency == 10
\* nameInputSelectors.length
NumNameSelectors == 7
\* waitAndClickWithRetry: maxRetries: number = 1, which every call of
\* autoRegisterAWS is left with
DefaultClickRetries == 1
\* tokenAttempts.length
NumTokenEndpoints == 2

\* The values of the concurrency <select> taken in the model: one at a
\* time, two, and the largest.
ConcurrencyChoices == {1, 2, MaxConcurrency}

Ids == 1..NumAccounts
RunIds == 1..MaxRuns

VARIABLES
    accounts,      \* store.accounts: the status of each account of the list
    isRunning,     \* store.isRunning
    shouldStop,    \* store.shouldStop
    concurrency,   \* store.concurrency
    nRuns,         \* how many times startRegistration got past its pending check
    runPc,         \* per run: "idle" | "await" (at await Promise.race) | "done"
    queue,         \* per run: the local `queue` array of runConcurrent
    running,       \* per run: the local `running` array of runConcurrent
    limit,         \* per run: the `concurrency` the run's closure captured
    taskPc,        \* per run and account: where registerSingleAccount stands
    starts         \* per account: calls of window.api.autoRegisterAWS so far

batchVars == <<accounts, isRunning, shouldStop, concurrency, nRuns, runPc,
               queue, running, limit, taskPc, starts>>

\* One call of autoRegisterAWS (main process).
VARIABLES
    pc,            \* the statement the run has reached
    emailGiven,    \* argument: email is not null
    mailEnabled,   \* argument: mailServiceConfig?.enabled
    keepBrowserOpen,     \* argument
    testLoginDetection,  \* argument
    codeFieldAtOnce,     \* the page after the first continue click shows the
                         \* code field, and neither a name nor a password field
    mailService,   \* local: mailService is not null
    tempMailbox,   \* local: tempMailbox is not null
    serviceUp,     \* the mail service when the run asked: "unknown" | "up" | "down"
    healthCalls,   \* calls of mailService.checkHealth
    createCalls,   \* calls of mailService.createMailbox
    email,         \* local: email is not null
    browserRef,    \* local: browser is not null
    browserProc,   \* the browser process: "none" | "open" | "closed"
    closeCalls,    \* calls of browser.close()
    deleteCalls,   \* calls of mailService.deleteMailbox()
    deleteThrew,   \* a call of mailService.deleteMailbox() threw
    consulted,     \* mail backends asked for the verification code
    manualWaits,   \* calls of waitForManualInput for the code field
    autoCode,      \* waitForVerificationCode returned a code
    codeInField,   \* a code has been entered into the code field
    raceState,     \* the Promise.race of the detectors: "pending" | "fulfilled" | "rejected"
    raceValue,     \* the detector whose settlement the race took
    firstSettled,  \* the detector whose element was visible first
    raceLater,     \* detectors that became visible after that, before the resume
    lateOther,     \* such a later detector was of the other kind than the winner
    via,           \* how the flow was classified: "none" | "race" | "fallback"
    decidedBy,     \* the detector that decided, or NoDetector for the default
    probesDone,    \* fallback: probes made; the next is ProbeOrder[probesDone + 1]
    onlyErrors,    \* fallback: every probe made so far had isVisible() reject
    isLoginFlow,   \* local
    isVerifyFlow,  \* local
    ui,            \* the page interactions made so far
    polls,         \* token harvest: cookie polls made
    cookieSeen,    \* the x-amz-sso_authn cookie was in the jar at some poll
    ssoToken,      \* local: ssoToken holds a non-empty value
    ssoCalls,      \* calls of ssoDeviceAuth
    result         \* what the call returned: "none" | "success" | "failed"

provVars == <<pc, emailGiven, mailEnabled, keepBrowserOpen, testLoginDetection,
              codeFieldAtOnce,
              mailService, tempMailbox, serviceUp, healthCalls, createCalls,
              email,
              browserRef, browserProc,
              closeCalls, deleteCalls, deleteThrew, consulted, manualWaits, autoCode,
              codeInField,
              raceState, raceValue, firstSettled, raceLater, lateOther, via,
              decidedBy, probesDone, onlyErrors, isLoginFlow,
              isVerifyFlow, ui, polls, cookieSeen, ssoToken, ssoCalls, result>>

\* One call of waitAndClickWithRetry, with checkAndRetryOnError inside it.
VARIABLES
    cPc,           \* "idle" | "click" | "check" | "reclick" | "backoff" |
                   \* "true" | "false" | "thrown"
    cMax,          \* argument maxRetries, handed on to checkAndRetryOnError
    cRetryCount,   \* waitAndClickWithRetry: retryCount
    cRetry,        \* checkAndRetryOnError: retry
    cClicks,       \* clicks made by waitAndClickWithRetry itself
    cReclicks,     \* re-clicks made by the current checkAndRetryOnError
    cBanners,      \* checks of the current checkAndRetryOnError that saw the banner
    cAllReclicks   \* re-clicks made in the whole call

clickVars == <<cPc, cMax, cRetryCount, cRetry, cClicks, cReclicks, cBanners,
               cAllReclicks>>

\* One call of waitAndFill.
VARIABLES
    fPc,           \* "idle" | "attempt" | "backoff" | "true" | "false" | "thrown"
    fMax,          \* argument maxRetries
    fByChar,       \* argument typeCharByChar
    fLen,          \* value.length
    fRetryCount,   \* retryCount
    fStep,         \* the step of FillSequence the attempt is at
    fTyped,        \* characters typed in this attempt
    fAttempts      \* attempts begun

fillVars == <<fPc, fMax, fByChar, fLen, fRetryCount, fStep, fTyped, fAttempts>>

\* One wait for the verification code: MailService.waitForVerificationCode
\* (the disposable backend) or getOutlookVerificationCode (the Graph backend).
VARIABLES
    mBackend,      \* "none" | "disposable" | "graph"
    mPc,           \* "idle" | "test" | "token" | "list" | "detail" | "sleep" |
                   \* "code" | "timeout" | "null"
    mElapsed,      \* Date.now() - startTime, in poll intervals
    mTry,          \* Graph: the token endpoint tried next
    mList,         \* the message list of the last list fetch, as kinds
    mIdx,          \* disposable: the message whose detail is being fetched
    mTokenPosts,   \* requests to a token endpoint
    mListFetches,  \* requests for the message list
    mDetailFetches,\* requests for one message
    mSleeps,       \* waits of one poll interval
    mCodeAt,       \* the list fetch that first showed an allow-listed
                   \* message with a code (0: none yet)
    mErrAfter,     \* a detail fetch failed at or after that list fetch
    mErrors,       \* list and detail fetches that failed
    mStrayFetch,   \* the detail of a message of another sender was fetched
    mStrayExtract  \* extractCode was given a message of another sender

mailPollVars == <<mBackend, mPc, mElapsed, mTry, mList, mIdx, mTokenPosts,
                  mListFetches, mDetailFetches, mSleeps, mCodeAt, mErrAfter,
                  mErrors, mStrayFetch, mStrayExtract>>

\* One call of extractCode.
VARIABLES
    xPc,           \* "idle" | "call" | "returned"
    xText,         \* the argument, a sequence of characters
    xMatch         \* the match the call returned the code of

extractVars == <<xPc, xText, xMatch>>

\* One call of generateSmartFingerprint.
VARIABLES
    fpPc,          \* "idle" | "call" | "returned"
    fpResult       \* the BrowserFingerprint returned

fingerprintVars == <<fpPc, fpResult>>

\* The store seen from any caller of setConcurrency.
VARIABLES
    scArg          \* the argument of the last call of setConcurrency

storeCallVars == <<scArg>>

\* startRegistration with the mail service enabled.
VARIABLES
    awaitingStart  \* calls of startRegistration that wait at the 100 ms
                   \* timer before they read the pending accounts

startVars == <<awaitingStart>>

\* The device-sync channel (DeviceConnectionService).
VARIABLES
    socket,             \* this.socket: the id of a socket made by io(), 0
                        \* for null
    authToken,          \* this.authToken, 0 for ''
    heartbeatInterval,  \* whether this.heartbeatInterval holds a timer
    sockets,            \* of every socket: its state, the attempts that
                        \* failed since it was made or last connected, and
                        \* whether its connection followed a reconnection
    emitted,            \* what the last step emitted, in order
    registered,         \* the sockets on which device:register went out
                        \* during the connection they hold now
    authFailed          \* 'Authentication failed' arrived and connect() was
                        \* not called since

deviceVars == <<socket, authToken, heartbeatInterval, sockets, emitted,
                registered, authFailed>>

\* The dialog after the token is harvested.
VARIABLES
    dsPc,           \* "idle" | "harvested" | "break"
    buttons,        \* the buttons of the page
    dsFailure,      \* the call of the block that throws, if any
    clickedButton,  \* the index of the button whose click() resolved, or 0
    dsCaught        \* the catch of the block ran

dismissVars == <<dsPc, buttons, dsFailure, clickedButton, dsCaught>>

\* The clear button of the page.
VARIABLES
    removed,     \* the accounts clearAccounts took out of the list: the
                 \* list of the store is `accounts` without them
    clearCalls   \* calls of handleClear

clearVars == <<removed, clearCalls>>

libVars == <<clickVars, fillVars, mailPollVars, extractVars,
            fingerprintVars,
            storeCallVars,
            startVars,
            deviceVars,
            dismissVars,
            clearVars>>

vars == <<batchVars, provVars, libVars>>

ClickIdle ==
    /\ cPc = "idle" /\ cMax = 0 /\ cRetryCount = 0 /\ cRetry = 0
    /\ cClicks = 0 /\ cReclicks = 0 /\ cBanners = 0 /\ cAllReclicks = 0

FillIdle ==
    /\ fPc = "idle" /\ fMax = 0 /\ fByChar = FALSE /\ fLen = 0
    /\ fRetryCount = 0 /\ fStep = 0 /\ fTyped = 0 /\ fAttempts = 0

MailIdle ==
    /\ mBackend = "none" /\ mPc = "idle" /\ mElapsed = 0 /\ mTry = 0
    /\ mList = <<>> /\ mIdx = 0 /\ mTokenPosts = 0 /\ mListFetches = 0
    /\ mDetailFetches = 0 /\ mSleeps = 0 /\ mCodeAt = 0 /\ mErrAfter = FALSE
    /\ mErrors = 0 /\ mStrayFetch = FALSE /\ mStrayExtract = FALSE

ExtractIdle ==
    /\ xPc = "idle" /\ xText = <<>>
    /\ xMatch = [index |-> 0, last |-> 0, code |-> <<>>]

NoFingerprint ==
    [userAgent |-> {}, viewport |-> <<0, 0>>, locale |-> "", timezone |-> "",
     platform |-> "", deviceScaleFactor |-> 0]

FingerprintIdle == fpPc = "idle" /\ fpResult = NoFingerprint

\* No call yet: the store holds its initial concurrency.
StoreCallIdle == scArg = MinConcurrency

StartIdle == awaitingStart = 0

SockIds == 1..MaxSockets

NoSocket == [state |-> "unused", attempts |-> 0, again |-> FALSE]

\* No call of connect() yet.
DeviceIdle ==
    /\ socket = 0 /\ authToken = 0 /\ heartbeatInterval = FALSE
    /\ sockets = [s \in SockIds |-> NoSocket]
    /\ emitted = <<>> /\ registered = {} /\ authFailed = FALSE

DismissIdle ==
    /\ dsPc = "idle" /\ buttons = <<>> /\ dsFailure = "none"
    /\ clickedButton = 0 /\ dsCaught = FALSE

ClearIdle == removed = {} /\ clearCalls = 0

LibIdle == ClickIdle /\ FillIdle /\ MailIdle /\ ExtractIdle /\ FingerprintIdle
    /\ StoreCallIdle
    /\ StartIdle
    /\ DeviceIdle
    /\ DismissIdle
    /\ ClearIdle

\* ---------------------------------------------------------------- helpers
Min(a, b) == IF a < b THEN a ELSE b
Max(a, b) == IF a > b THEN a ELSE b

SeqToSet(s) == {s[i] : i \in 1..Len(s)}

\* running.splice(running.indexOf(task), 1)
Splice(s, x) == SelectSeq(s, LAMBDA y : y # x)

\* accounts.filter(a => a.status === 'pending'), in list order
RECURSIVE PendingFrom(_, _)
PendingFrom(acc, i) ==
    IF i > NumAccounts THEN <<>>
    ELSE (IF acc[i] = "pending" THEN <<i>> ELSE <<>>) \o PendingFrom(acc, i + 1)

PendingAccounts(acc) == PendingFrom(acc, 1)

\* ------------------------------------------------------------------ store
\* setConcurrency: Math.min(10, Math.max(1, concurrency))
ClampConcurrency_Unclamped(n) == n
ClampConcurrency(n) == Min(MaxConcurrency, Max(MinConcurrency, n))

\* updateAccountStatus(id, {status})
UpdateAccountStatus(acc, id, st) == [acc EXCEPT ![id] = st]

RECURSIVE UpdateAll(_, _, _)
UpdateAll(acc, ids, st) ==
    IF ids = <<>> THEN acc
    ELSE UpdateAll(UpdateAccountStatus(acc, Head(ids), st), Tail(ids), st)

\* ---------------------------------------------------------- runConcurrent
\* (mutant) the loop never looks at the stop flag
StopCheck_Ignored(stop) == FALSE

\* The stop check at the top of the while loop.
StopCheck(stop) == stop

\* (mutant) the fill loop without the running.length < concurrency test
FillCount_NoLimit(q, run, c) == Len(q)

\* (mutant) batch/barrier refill: only once every running task has returned
FillCount_Barrier(q, run, c) ==
    IF Len(run) = 0 THEN Min(Len(q), c) ELSE 0

\* The inner fill loop: how many accounts it shifts off the queue.
FillCount(q, run, c) ==
    IF Len(run) < c THEN Min(Len(q), c - Len(run)) ELSE 0

\* (mutant) while (queue.length > 0): the loop ends with tasks in flight
RunLoop_QueueOnly(q, run, c, stop) ==
    IF ~(Len(q) > 0)
    THEN [pc |-> "done", q |-> q, run |-> run, started |-> <<>>]
    ELSE IF StopCheck(stop)
    THEN [pc |-> "done", q |-> q, run |-> run, started |-> <<>>]
    ELSE LET k == FillCount(q, run, c)
             s == SubSeq(q, 1, k)
         IN  [pc |-> "await", q |-> SubSeq(q, k + 1, Len(q)),
              run |-> run \o s, started |-> s]

\* One pass of runConcurrent from the top of the while loop to the point
\* where it next gives up control: the state of its locals there.
\*   pc = "await"  it waits at Promise.race(running)
\*   pc = "done"   the loop has ended (condition false, or break on stop)
\* `started` are the accounts registerSingleAccount was called for.
RunLoop(q, run, c, stop) ==
    IF ~(Len(q) > 0 \/ Len(run) > 0)
    THEN [pc |-> "done", q |-> q, run |-> run, started |-> <<>>]
    ELSE IF StopCheck(stop)
    THEN [pc |-> "done", q |-> q, run |-> run, started |-> <<>>]
    ELSE LET k == FillCount(q, run, c)
             s == SubSeq(q, 1, k)
         IN  [pc |-> "await", q |-> SubSeq(q, k + 1, Len(q)),
              run |-> run \o s, started |-> s]

\* The effect of a pass of run r on the state: the tasks it starts are set
\* to 'registering' and their IPC call is out; when the loop ends,
\* startRegistration goes on to setIsRunning(false).
ApplyLoop(r, res, acc, tpc) ==
    /\ queue' = [queue EXCEPT ![r] = res.q]
    /\ running' = [running EXCEPT ![r] = res.run]
    /\ runPc' = [runPc EXCEPT ![r] = res.pc]
    /\ accounts' = UpdateAll(acc, res.started, "registering")
    /\ taskPc' = [tpc EXCEPT ![r] =
                    [id \in Ids |-> IF id \in SeqToSet(res.started)
                                    THEN "register" ELSE tpc[r][id]]]
    /\ starts' = [id \in Ids |-> IF id \in SeqToSet(res.started)
                                 THEN starts[id] + 1 ELSE starts[id]]

\* ------------------------------------------------------------------- Init
NoDetector == <<"none", 0>>

\* autoRegisterAWS not called.
ProvIdle ==
    /\ pc = "idle"
    /\ emailGiven = FALSE /\ mailEnabled = FALSE
    /\ keepBrowserOpen = FALSE /\ testLoginDetection = FALSE
    /\ codeFieldAtOnce = FALSE
    /\ mailService = FALSE /\ tempMailbox = FALSE /\ email = FALSE
    /\ serviceUp = "unknown" /\ healthCalls = 0 /\ createCalls = 0
    /\ browserRef = FALSE /\ browserProc = "none"
    /\ closeCalls = 0 /\ deleteCalls = 0 /\ deleteThrew = FALSE
    /\ consulted = {} /\ manualWaits = 0 /\ codeInField = FALSE
    /\ autoCode = FALSE
    /\ raceState = "pending" /\ raceValue = NoDetector
    /\ firstSettled = NoDetector /\ raceLater = {} /\ lateOther = FALSE
    /\ via = "none" /\ decidedBy = NoDetector
    /\ probesDone = 0 /\ onlyErrors = TRUE
    /\ isLoginFlow = FALSE /\ isVerifyFlow = FALSE
    /\ ui = {} /\ polls = 0 /\ cookieSeen = FALSE /\ ssoToken = FALSE
    /\ ssoCalls = 0
    /\ result = "none"

BatchInit ==
    /\ ProvIdle
    /\ LibIdle
    /\ accounts \in [Ids -> {"pending", "exists"}]
    /\ isRunning = FALSE
    /\ shouldStop = FALSE
    /\ concurrency = 1
    /\ nRuns = 0
    /\ runPc = [r \in RunIds |-> "idle"]
    /\ queue = [r \in RunIds |-> <<>>]
    /\ running = [r \in RunIds |-> <<>>]
    /\ limit = [r \in RunIds |-> 0]
    /\ taskPc = [r \in RunIds |-> [id \in Ids |-> "none"]]
    /\ starts = [id \in Ids |-> 0]

\* ---------------------------------------------------------------- actions
\* The concurrency <select>, enabled while no run is on.
SetConcurrency(n) ==
    /\ UNCHANGED <<provVars, libVars>>
    /\ ~isRunning
    /\ concurrency' = ClampConcurrency(n)
    /\ UNCHANGED <<accounts, isRunning, shouldStop, nRuns, runPc, queue,
                   running, limit, taskPc, starts>>

\* The start button (shown while no run is on): startRegistration up to the
\* first await of runConcurrent.
StartRegistration ==
    /\ UNCHANGED <<provVars, libVars>>
    /\ ~isRunning
    /\ nRuns < MaxRuns
    /\ PendingAccounts(accounts) # <<>>
    /\ LET r == nRuns + 1
           res == RunLoop(PendingAccounts(accounts), <<>>, concurrency, FALSE)
       IN  /\ nRuns' = r
           /\ limit' = [limit EXCEPT ![r] = concurrency]
           /\ shouldStop' = FALSE
           /\ isRunning' = (res.pc # "done")
           /\ ApplyLoop(r, res, accounts, taskPc)
    /\ UNCHANGED concurrency

\* The stop button (shown while a run is on): stopRegistration.
StopRegistration ==
    /\ UNCHANGED <<provVars, libVars>>
    /\ isRunning
    /\ shouldStop' = TRUE
    /\ UNCHANGED <<accounts, isRunning, concurrency, nRuns, runPc, queue,
                   running, limit, taskPc, starts>>

\* (mutant) a returning task ends the whole run
TaskReturns_AbortRun(r, id, acc) ==
    /\ running' = [running EXCEPT ![r] = Splice(running[r], id)]
    /\ taskPc' = [taskPc EXCEPT ![r][id] = "done"]
    /\ accounts' = acc
    /\ runPc' = [runPc EXCEPT ![r] = "done"]
    /\ isRunning' = FALSE
    /\ UNCHANGED <<queue, starts>>

\* registerSingleAccount of run r for account id returns: its .then callback
\* splices the task out of `running`, Promise.race resolves, and the run, if
\* it waits there, makes its next pass.
TaskReturns(r, id, acc) ==
    LET run1 == Splice(running[r], id)
        tpc1 == [taskPc EXCEPT ![r][id] = "done"]
    IN  IF runPc[r] = "await"
        THEN LET res == RunLoop(queue[r], run1, limit[r], shouldStop)
             IN  /\ ApplyLoop(r, res, acc, tpc1)
                 /\ isRunning' = IF res.pc = "done" THEN FALSE ELSE isRunning
        ELSE /\ running' = [running EXCEPT ![r] = run1]
             /\ taskPc' = tpc1
             /\ accounts' = acc
             /\ UNCHANGED <<queue, runPc, isRunning, starts>>

\* The reply of window.api.autoRegisterAWS reaches registerSingleAccount.
RegisterReply(r, id, outcome) ==
    /\ UNCHANGED <<provVars, libVars>>
    /\ taskPc[r][id] = "register"
    /\ IF outcome = "success"
       THEN /\ accounts' = UpdateAccountStatus(accounts, id, "success")
            /\ taskPc' = [taskPc EXCEPT ![r][id] = "import"]
            /\ UNCHANGED <<isRunning, runPc, queue, running, starts>>
       ELSE TaskReturns(r, id, UpdateAccountStatus(accounts, id, "failed"))
    /\ UNCHANGED <<shouldStop, concurrency, nRuns, limit>>

\* The reply of window.api.importFromSsoToken reaches importWithSsoToken,
\* which swallows every failure.
ImportReply(r, id) ==
    /\ UNCHANGED <<provVars, libVars>>
    /\ taskPc[r][id] = "import"
    /\ TaskReturns(r, id, accounts)
    /\ UNCHANGED <<shouldStop, concurrency, nRuns, limit>>

BatchNext ==
    \/ \E n \in ConcurrencyChoices : SetConcurrency(n)
    \/ StartRegistration
    \/ StopRegistration
    \/ \E r \in RunIds, id \in Ids, o \in {"success", "failed", "throw"} :
          RegisterReply(r, id, o)
    \/ \E r \in RunIds, id \in Ids : ImportReply(r, id)

Spec == BatchInit /\ [][BatchNext]_vars

\* Some reply is out for as long as a task is in flight, and the event loop
\* delivers it: the hypothesis that every started task completes.
AnyReply ==
    \E r \in RunIds, id \in Ids :
        \/ \E o \in {"success", "failed", "throw"} : RegisterReply(r, id, o)
        \/ ImportReply(r, id)

FairSpec == Spec /\ WF_vars(AnyReply)

\* The store's setConcurrency called by any caller, at any time and with any
\* integer, not only by the <select> with one of its options: the values
\* around both ends of the range and those of the <select> of the model.
\* A run keeps the concurrency its closure was created with.
Arguments ==
    {MinConcurrency - 2, MinConcurrency - 1, MaxConcurrency + 1,
     MaxConcurrency + 2} \cup ConcurrencyChoices

SetConcurrencyCall(n) ==
    /\ concurrency' = ClampConcurrency(n)
    /\ scArg' = n
    /\ UNCHANGED <<accounts, isRunning, shouldStop, nRuns, runPc, queue,
                   running, limit, taskPc, starts, provVars, clickVars,
                   fillVars, mailPollVars, extractVars, fingerprintVars,
                   startVars, deviceVars, dismissVars, clearVars>>

StoreNext ==
    \/ \E n \in Arguments : SetConcurrencyCall(n)
    \/ StartRegistration
    \/ StopRegistration
    \/ \E r \in RunIds, id \in Ids, o \in {"success", "failed", "throw"} :
          RegisterReply(r, id, o)
    \/ \E r \in RunIds, id \in Ids : ImportReply(r, id)

StoreSpec == BatchInit /\ [][StoreNext]_vars

\* The page with the mail service enabled.  Every account is a virtual one:
\* a click on the start button (shown while no run is on) clears the list,
\* adds registerCount fresh pending accounts and waits 100 ms; only then
\* does startRegistration read the pending accounts, set isRunning and enter
\* runConcurrent.  Until then the start button stays.  The accounts of a
\* new list take the identifiers of the old one, so the click is modelled
\* while no task of an earlier run is in flight.
StartClick ==
    /\ ~isRunning
    /\ nRuns + awaitingStart < MaxRuns
    /\ \A r \in RunIds, id \in Ids : taskPc[r][id] \in {"none", "done"}
    /\ accounts' = [id \in Ids |-> "pending"]
    /\ awaitingStart' = awaitingStart + 1
    /\ UNCHANGED <<isRunning, shouldStop, concurrency, nRuns, runPc, queue,
                   running, limit, taskPc, starts, provVars, clickVars,
                   fillVars, mailPollVars, extractVars, fingerprintVars,
                   storeCallVars, deviceVars, dismissVars, clearVars>>

\* The timer fires: startRegistration from the filter on 'pending' to the
\* first await of runConcurrent, or to the alert when nothing is pending.
StartResume ==
    /\ awaitingStart > 0
    /\ awaitingStart' = awaitingStart - 1
    /\ IF PendingAccounts(accounts) = <<>>
       THEN UNCHANGED <<accounts, isRunning, shouldStop, nRuns, runPc, queue,
                        running, limit, taskPc, starts>>
       ELSE LET r == nRuns + 1
                res == RunLoop(PendingAccounts(accounts), <<>>, concurrency,
                               FALSE)
            IN  /\ nRuns' = r
                /\ limit' = [limit EXCEPT ![r] = concurrency]
                /\ shouldStop' = FALSE
                /\ isRunning' = (res.pc # "done")
                /\ ApplyLoop(r, res, accounts, taskPc)
    /\ UNCHANGED <<concurrency, provVars, clickVars, fillVars, mailPollVars,
                   extractVars, fingerprintVars, storeCallVars, deviceVars,
                   dismissVars, clearVars>>

MailStartNext ==
    \/ StartClick
    \/ StartResume
    \/ StopRegistration
    \/ \E r \in RunIds, id \in Ids, o \in {"success", "failed", "throw"} :
          RegisterReply(r, id, o)
    \/ \E r \in RunIds, id \in Ids : ImportReply(r, id)

MailStartSpec == BatchInit /\ [][MailStartNext]_vars

\* ======================================================== autoRegisterAWS
inputVars == <<emailGiven, mailEnabled, keepBrowserOpen, testLoginDetection,
               codeFieldAtOnce>>
mailVars == <<mailService, tempMailbox, serviceUp, healthCalls, createCalls,
              email>>
browserVars == <<browserRef, browserProc, closeCalls>>
codeVars == <<consulted, manualWaits, autoCode, codeInField>>
raceVars == <<raceState, raceValue, firstSettled, raceLater, lateOther>>
classVars == <<via, decidedBy, probesDone, onlyErrors, isLoginFlow,
               isVerifyFlow>>
endVars == <<polls, cookieSeen, ssoToken, ssoCalls, deleteCalls, deleteThrew,
            result>>

\* The waits raced after the first continue click: one per name selector
\* ('register-<index>'), the login heading ('login') and the login password
\* field ('login-password').
NameDetectors == {<<"register", i>> : i \in 1..NumNameSelectors}
LoginDetectors == {<<"login", 0>>, <<"login-password", 0>>}
Detectors == NameDetectors \cup LoginDetectors

\* What a detector can find on the page: on the page that shows the code
\* field at once there is no name field and no password field.
OnPage(d) == ~codeFieldAtOnce \/ d = <<"login", 0>>

\* The order of the sequential probes of the fallback.
ProbeOrder ==
    [i \in 1..(NumNameSelectors + 2) |->
        IF i <= NumNameSelectors THEN <<"register", i>>
        ELSE IF i = NumNameSelectors + 1 THEN <<"login", 0>>
        ELSE <<"login-password", 0>>]

\* (mutant) a race that lets a later settlement replace the first
RaceSettle_LastWins(state, value, d, outcome) ==
    [state |-> outcome, value |-> d]

\* Promise.race: the first input promise to settle settles the race; what
\* settles afterwards is dropped.
RaceSettle(state, value, d, outcome) ==
    IF state = "pending" THEN [state |-> outcome, value |-> d]
    ELSE [state |-> state, value |-> value]

\* (mutant) only the heading counts as login
ClassifyRace_HeadingOnly(value) == value[1] = "login"

\* result === 'login' || result === 'login-password'
ClassifyRace(value) == value[1] \in {"login", "login-password"}

\* (mutant) isVisible() without .catch(() => false)
ProbeResult_NoCatch(o) ==
    IF o = "visible" THEN "true" ELSE IF o = "hidden" THEN "false" ELSE "throw"

\* isVisible().catch(() => false)
ProbeResult(o) == IF o = "visible" THEN "true" ELSE "false"

\* (mutant) a registration that goes to its password step at once
Branch_PasswordFirst(login, verify) ==
    IF login THEN (IF verify THEN "codeField" ELSE "loginPassword")
    ELSE "regPassword"

\* if (isLoginFlow) { if (!isVerifyFlow) password ... } else name ...
Branch(login, verify) ==
    IF login THEN (IF verify THEN "codeField" ELSE "loginPassword")
    ELSE "nameFill"

\* (mutant) the automatic path taken whenever a mail service object exists
\* or an address is known
UsesMailBackend_Always(ms, tm) == TRUE

UsesMailBackend_Never(ms, tm) == FALSE

\* if (mailService && tempMailbox): the automatic code path
UsesMailBackend(ms, tm) == ms /\ tm

\* (mutant) a catch block that leaves the browser alone
CatchCloses_Never(ref) == FALSE

\* catch: if (browser) browser.close()
CatchCloses(ref) == ref

\* Cleanup of the temporary mailbox: if (mailService && tempMailbox)
HasMailbox(ms, tm) == ms /\ tm

\* waitAndClickWithRetry with its default maxRetries = 1: true when the
\* click went through and no error banner showed.
ClickResult(o) == o = "ok"
\* the click itself was made (also when the banner then showed)
ClickMade(o) == o \in {"ok", "errorBanner"}
ClickOutcomes == {"ok", "noClick", "errorBanner"}

BatchIdle ==
    /\ accounts = [id \in Ids |-> "pending"]
    /\ isRunning = FALSE /\ shouldStop = FALSE /\ concurrency = 1
    /\ nRuns = 0
    /\ runPc = [r \in RunIds |-> "idle"]
    /\ queue = [r \in RunIds |-> <<>>]
    /\ running = [r \in RunIds |-> <<>>]
    /\ limit = [r \in RunIds |-> 0]
    /\ taskPc = [r \in RunIds |-> [id \in Ids |-> "none"]]
    /\ starts = [id \in Ids |-> 0]

\* autoRegisterAWS has been called, with any arguments.
ProvInit ==
    /\ BatchIdle
    /\ LibIdle
    /\ pc = "start"
    /\ emailGiven \in BOOLEAN /\ mailEnabled \in BOOLEAN
    /\ keepBrowserOpen \in BOOLEAN /\ testLoginDetection \in BOOLEAN
    /\ codeFieldAtOnce \in BOOLEAN
    /\ email = emailGiven
    /\ mailService = FALSE /\ tempMailbox = FALSE
    /\ serviceUp = "unknown" /\ healthCalls = 0 /\ createCalls = 0
    /\ browserRef = FALSE /\ browserProc = "none"
    /\ closeCalls = 0 /\ deleteCalls = 0 /\ deleteThrew = FALSE
    /\ consulted = {} /\ manualWaits = 0 /\ codeInField = FALSE
    /\ autoCode = FALSE
    /\ raceState = "pending" /\ raceValue = NoDetector
    /\ firstSettled = NoDetector /\ raceLater = {} /\ lateOther = FALSE
    /\ via = "none" /\ decidedBy = NoDetector
    /\ probesDone = 0 /\ onlyErrors = TRUE
    /\ isLoginFlow = FALSE /\ isVerifyFlow = FALSE
    /\ ui = {} /\ polls = 0 /\ cookieSeen = FALSE /\ ssoToken = FALSE
    /\ ssoCalls = 0
    /\ result = "none"

\* (mutant) step 0 with the answer of the health check ignored
MailboxStep_HealthIgnored(healthy, created) ==
    [health |-> 1, creates |-> 1, made |-> created]

\* Step 0 with the mail service enabled and no address given: checkHealth,
\* and only when it is healthy createMailbox, which gives a mailbox or
\* throws.
MailboxStep(healthy, created) ==
    IF ~healthy THEN [health |-> 1, creates |-> 0, made |-> FALSE]
    ELSE [health |-> 1, creates |-> 1, made |-> created]

\* Step 0: the temporary mailbox, and the check that there is an address.
P_Start(healthy, created) ==
    /\ pc = "start"
    /\ IF mailEnabled /\ ~email
       THEN LET m == MailboxStep(healthy, created)
            IN  /\ mailService' = TRUE
                /\ serviceUp' = IF healthy THEN "up" ELSE "down"
                /\ healthCalls' = healthCalls + m.health
                /\ createCalls' = createCalls + m.creates
                /\ tempMailbox' = m.made
                /\ email' = m.made
                /\ pc' = IF m.made THEN "launch" ELSE "catch"
       ELSE /\ UNCHANGED mailVars
            /\ pc' = IF email THEN "launch" ELSE "catch"
    /\ UNCHANGED <<inputVars, browserVars, codeVars, raceVars, classVars,
                   endVars, ui,
                   batchVars, libVars>>

\* chromium.launch
P_Launch(ok) ==
    /\ pc = "launch"
    /\ IF ok
       THEN browserRef' = TRUE /\ browserProc' = "open" /\ pc' = "navigate"
       ELSE UNCHANGED <<browserRef, browserProc>> /\ pc' = "catch"
    /\ UNCHANGED <<inputVars, mailVars, closeCalls, codeVars, raceVars,
                   classVars, endVars, ui,
                   batchVars, libVars>>

\* newContext, clearCookies, newPage, addInitScript, goto, the load waits.
P_Navigate(ok) ==
    /\ pc = "navigate"
    /\ pc' = IF ok THEN "fillEmail" ELSE "catch"
    /\ ui' = IF ok THEN ui \cup {"goto"} ELSE ui
    /\ UNCHANGED <<inputVars, mailVars, browserVars, codeVars, raceVars,
                   classVars, endVars,
                   batchVars, libVars>>

\* A step of the form  if (!(await waitAndFill(...))) throw ...
FillStep(at, name, next, ok) ==
    /\ pc = at
    /\ pc' = IF ok THEN next ELSE "catch"
    /\ ui' = IF ok THEN ui \cup {name} ELSE ui
    /\ UNCHANGED <<inputVars, mailVars, browserVars, codeVars, raceVars,
                   classVars, endVars,
                   batchVars, libVars>>

\* A step of the form  if (!(await waitAndClickWithRetry(...))) throw ...
ClickStep(at, name, next, o) ==
    /\ pc = at
    /\ pc' = IF ClickResult(o) THEN next ELSE "catch"
    /\ ui' = IF ClickMade(o) THEN ui \cup {name} ELSE ui
    /\ UNCHANGED <<inputVars, mailVars, browserVars, codeVars, raceVars,
                   classVars, endVars,
                   batchVars, libVars>>

P_FillEmail(ok) == FillStep("fillEmail", "fillEmail", "click1", ok)
P_Click1(o) == ClickStep("click1", "click1", "race", o)

\* The element of one of the raced waits becomes visible: its waitFor
\* fulfils with its tag.
P_DetectorVisible(d) ==
    /\ pc = "race" /\ raceState # "rejected"
    /\ OnPage(d)
    /\ d # firstSettled /\ d \notin raceLater
    /\ IF firstSettled = NoDetector
       THEN firstSettled' = d /\ UNCHANGED raceLater
       ELSE /\ Cardinality(raceLater) < MaxLater
            /\ raceLater' = raceLater \cup {d}
            /\ UNCHANGED firstSettled
    /\ LET r == RaceSettle(raceState, raceValue, d, "fulfilled")
       IN  raceState' = r.state /\ raceValue' = r.value
    /\ UNCHANGED <<pc, inputVars, mailVars, browserVars, codeVars, lateOther,
                   classVars, endVars, ui, batchVars, libVars>>

\* Nothing became visible in time: the waits, made in one turn with one
\* timeout, give up together and the first rejection settles the race.
P_RaceTimeout ==
    /\ pc = "race" /\ raceState = "pending"
    /\ LET r == RaceSettle(raceState, raceValue, NoDetector, "rejected")
       IN  raceState' = r.state /\ raceValue' = r.value
    /\ UNCHANGED <<pc, inputVars, mailVars, browserVars, codeVars,
                   firstSettled, raceLater, lateOther, classVars, endVars, ui,
                   batchVars, libVars>>

\* The await of the race resumes: classified, or into the catch that probes.
P_RaceResume ==
    /\ pc = "race" /\ raceState # "pending"
    /\ raceLater' = {}
    /\ IF raceState = "fulfilled"
       THEN /\ via' = "race"
            /\ decidedBy' = raceValue
            /\ isLoginFlow' = ClassifyRace(raceValue)
            /\ isVerifyFlow' = IF ClassifyRace(raceValue) THEN FALSE
                               ELSE isVerifyFlow
            /\ lateOther' = \E d \in raceLater :
                               (d \in LoginDetectors) # (firstSettled \in LoginDetectors)
            /\ pc' = Branch(isLoginFlow', isVerifyFlow')
       ELSE /\ pc' = "probe"
            /\ UNCHANGED <<via, decidedBy, isLoginFlow, isVerifyFlow, lateOther>>
    /\ UNCHANGED <<inputVars, mailVars, browserVars, codeVars, raceState,
                   raceValue, firstSettled, probesDone, onlyErrors, endVars, ui,
                   batchVars, libVars>>

\* The fallback: one isVisible() probe, in the order name selectors, login
\* heading, login password field; the first visible one decides, and with
\* none visible the flow is taken to be registration.
P_Probe(o) ==
    /\ pc = "probe"
    /\ o = "visible" => OnPage(ProbeOrder[probesDone + 1])
    /\ probesDone' = probesDone + 1
    /\ onlyErrors' = (onlyErrors /\ o = "error")
    /\ LET d == ProbeOrder[probesDone + 1]
           r == ProbeResult(o)
           last == probesDone + 1 = NumNameSelectors + 2
       IN  IF r = "true"
           THEN /\ via' = "fallback" /\ decidedBy' = d
                /\ isLoginFlow' = (d \in LoginDetectors)
                /\ pc' = Branch(isLoginFlow', isVerifyFlow)
           ELSE IF r = "throw" \/ last
           THEN /\ via' = "fallback" /\ decidedBy' = NoDetector
                /\ isLoginFlow' = FALSE
                /\ pc' = Branch(FALSE, isVerifyFlow)
           ELSE UNCHANGED <<pc, via, decidedBy, isLoginFlow>>
    /\ UNCHANGED <<inputVars, mailVars, browserVars, codeVars, raceVars,
                   isVerifyFlow, endVars, ui, batchVars, libVars>>

\* Login branch, step 2: the password and its continue button.
P_LoginPassword(ok) ==
    /\ ok => OnPage(<<"login-password", 0>>)
    /\ FillStep("loginPassword", "fillLoginPassword", "loginContinue", ok)
P_LoginContinue(o) ==
    ClickStep("loginContinue", "clickLoginContinue", "codeField", o)

\* Registration branch, step 2: the name and its continue button.
P_NameFill(ok) ==
    /\ ok => \E d \in NameDetectors : OnPage(d)
    /\ FillStep("nameFill", "fillName", "click2", ok)
P_Click2(o) == ClickStep("click2", "clickNameContinue", "codeField", o)

\* Both branches: the wait loop for the code field.
P_CodeField(found) ==
    /\ pc = "codeField"
    /\ pc' = IF found THEN "acquire" ELSE "catch"
    /\ UNCHANGED <<inputVars, mailVars, browserVars, codeVars, raceVars,
                   classVars, endVars, ui,
                   batchVars, libVars>>

\* Both branches: the code from the temporary mailbox when there is one
\* (a timeout falls back to manual entry; the result of the fill is not
\* looked at), manual entry otherwise.
P_Acquire(got, filled) ==
    /\ pc = "acquire"
    /\ IF UsesMailBackend(mailService, tempMailbox)
       THEN /\ consulted' = consulted \cup {"disposable"}
            /\ autoCode' = got
            /\ IF got
               THEN /\ codeInField' = filled
                    /\ ui' = IF filled THEN ui \cup {"fillCode"} ELSE ui
                    /\ pc' = "verifyClick"
               ELSE /\ pc' = "manual"
                    /\ UNCHANGED <<codeInField, ui>>
       ELSE /\ pc' = "manual"
            /\ UNCHANGED <<consulted, autoCode, codeInField, ui>>
    /\ UNCHANGED <<inputVars, mailVars, browserVars, manualWaits, raceVars,
                   classVars, endVars,
                   batchVars, libVars>>

\* waitForManualInput on the code field.
P_Manual(ok) ==
    /\ pc = "manual"
    /\ manualWaits' = manualWaits + 1
    /\ codeInField' = ok
    /\ pc' = IF ok THEN "verifyClick" ELSE "catch"
    /\ UNCHANGED <<inputVars, mailVars, browserVars, consulted, autoCode,
                   raceVars, classVars, endVars, ui,
                   batchVars, libVars>>

\* The button that confirms the code.
P_VerifyClick(o) ==
    ClickStep("verifyClick", "clickVerify",
              IF isLoginFlow THEN "loginReset" ELSE "regPassword", o)

\* Login branch: the password step some accounts get after the code; every
\* failure in it is swallowed.
P_LoginReset(o) ==
    /\ pc = "loginReset"
    /\ ui' = ui \cup (CASE o = "absent" -> {}
                        [] o = "passwordFails" -> {}
                        [] o = "confirmFails" -> {"fillPassword"}
                        [] o = "clickFails" -> {"fillPassword", "fillConfirmPassword"}
                        [] o = "done" -> {"fillPassword", "fillConfirmPassword",
                                          "clickPasswordContinue"})
    /\ pc' = "harvest"
    /\ UNCHANGED <<inputVars, mailVars, browserVars, codeVars, raceVars,
                   classVars, endVars,
                   batchVars, libVars>>

\* Registration branch, step 4: both password fields.
P_RegPassword(o) ==
    /\ pc = "regPassword"
    /\ ui' = ui \cup (CASE o = "notFound" -> {}
                        [] o = "confirmThrows" -> {"fillPassword"}
                        [] o = "done" -> {"fillPassword", "fillConfirmPassword"})
    /\ pc' = IF o = "done" THEN "click3" ELSE "catch"
    /\ UNCHANGED <<inputVars, mailVars, browserVars, codeVars, raceVars,
                   classVars, endVars,
                   batchVars, libVars>>

P_Click3(o) == ClickStep("click3", "clickPasswordContinue", "harvest", o)

\* (mutant) no check of the token after the loop
MissingToken_Never(tok) == FALSE

\* if (!ssoToken) after the loop
MissingToken(tok) == ~tok

\* Step 5: one pass of the cookie loop: the cookie with a value ("found"),
\* the cookie with an empty value ("empty"), no cookie ("absent"), or a
\* call that throws.  When the cookie is there the dialog button may get
\* clicked and the loop breaks; it also ends after the last pass.  After the
\* loop a missing token closes the browser (closed: close() resolved) and
\* throws.
P_Harvest(o, clicked, closed) ==
    /\ pc = "harvest"
    /\ LET seen == o \in {"found", "empty"}
           tok == o = "found"
       IN  CASE o = "throws" ->
                  /\ ~clicked /\ ~closed
                  /\ pc' = "catch"
                  /\ UNCHANGED <<polls, cookieSeen, ssoToken, ui, browserVars>>
             [] o = "absent" /\ polls + 1 < MaxPolls ->
                  /\ ~clicked /\ ~closed
                  /\ polls' = polls + 1
                  /\ UNCHANGED <<pc, cookieSeen, ssoToken, ui, browserVars>>
             [] OTHER ->
                  /\ clicked => seen
                  /\ polls' = polls + 1
                  /\ cookieSeen' = seen
                  /\ ssoToken' = tok
                  /\ ui' = IF clicked THEN ui \cup {"clickDialog"} ELSE ui
                  /\ IF MissingToken(tok)
                     THEN /\ closeCalls' = closeCalls + 1
                          /\ browserProc' = "closed"
                          /\ browserRef' = IF closed THEN FALSE ELSE browserRef
                          /\ pc' = "catch"
                     ELSE /\ ~closed
                          /\ pc' = "testLogin"
                          /\ UNCHANGED browserVars
    /\ UNCHANGED <<inputVars, mailVars, codeVars, raceVars, classVars,
                   ssoCalls, deleteCalls, deleteThrew, result,
                   batchVars, libVars>>

\* The self test of the login detection; whatever happens in it is swallowed.
P_TestLogin ==
    /\ pc = "testLogin"
    /\ ui' = IF testLoginDetection THEN ui \cup {"gotoAgain"} ELSE ui
    /\ pc' = "close"
    /\ UNCHANGED <<inputVars, mailVars, browserVars, codeVars, raceVars,
                   classVars, endVars,
                   batchVars, libVars>>

\* if (!keepBrowserOpen) { await browser.close(); browser = null }
P_Close(ok) ==
    /\ pc = "close"
    /\ IF ~keepBrowserOpen
       THEN /\ closeCalls' = closeCalls + 1
            /\ browserProc' = "closed"
            /\ browserRef' = IF ok THEN FALSE ELSE browserRef
            /\ pc' = IF ok THEN "sso" ELSE "catch"
       ELSE /\ ok
            /\ pc' = "sso"
            /\ UNCHANGED browserVars
    /\ UNCHANGED <<inputVars, mailVars, codeVars, raceVars, classVars,
                   endVars, ui,
                   batchVars, libVars>>

AfterCleanup_Rethrows(res, deleted) == IF deleted THEN res ELSE "threw"

\* try { await mailService.deleteMailbox(...) } catch { log(...) }: the run
\* returns what it was about to return.
AfterCleanup(res, deleted) == res

\* Step 6: ssoDeviceAuth; a failure result is returned at once, a success
\* deletes the temporary mailbox (deleted: the call resolved) and returns.
P_Sso(o, deleted) ==
    /\ pc = "sso"
    /\ ssoCalls' = ssoCalls + 1
    /\ CASE o = "success" ->
              /\ IF HasMailbox(mailService, tempMailbox)
                 THEN /\ deleteCalls' = deleteCalls + 1
                      /\ deleteThrew' = ~deleted
                      /\ result' = AfterCleanup("success", deleted)
                 ELSE /\ deleted
                      /\ result' = "success"
                      /\ UNCHANGED <<deleteCalls, deleteThrew>>
              /\ pc' = "returned"
         [] o = "failure" ->
              /\ deleted
              /\ result' = "failed"
              /\ pc' = "returned"
              /\ UNCHANGED <<deleteCalls, deleteThrew>>
         [] o = "throws" ->
              /\ deleted
              /\ pc' = "catch"
              /\ UNCHANGED <<deleteCalls, deleteThrew, result>>
    /\ UNCHANGED <<inputVars, mailVars, browserVars, codeVars, raceVars,
                   classVars, polls, cookieSeen, ssoToken, ui,
                   batchVars, libVars>>

\* The catch block of the whole run.
P_Catch(deleted) ==
    /\ pc = "catch"
    /\ IF CatchCloses(browserRef)
       THEN closeCalls' = closeCalls + 1 /\ browserProc' = "closed"
       ELSE UNCHANGED <<closeCalls, browserProc>>
    /\ IF HasMailbox(mailService, tempMailbox)
       THEN /\ deleteCalls' = deleteCalls + 1
            /\ deleteThrew' = ~deleted
            /\ result' = AfterCleanup("failed", deleted)
       ELSE /\ deleted
            /\ result' = "failed"
            /\ UNCHANGED <<deleteCalls, deleteThrew>>
    /\ pc' = "returned"
    /\ UNCHANGED <<inputVars, mailVars, browserRef, codeVars, raceVars,
                   classVars, polls, cookieSeen, ssoToken, ssoCalls, ui,
                   batchVars, libVars>>

ProvNext ==
    \/ \E h \in BOOLEAN, c \in BOOLEAN : P_Start(h, c)
    \/ \E ok \in BOOLEAN : P_Launch(ok)
    \/ \E ok \in BOOLEAN : P_Navigate(ok)
    \/ \E ok \in BOOLEAN : P_FillEmail(ok)
    \/ \E o \in ClickOutcomes : P_Click1(o)
    \/ \E d \in Detectors : P_DetectorVisible(d)
    \/ P_RaceTimeout
    \/ P_RaceResume
    \/ \E o \in {"visible", "hidden", "error"} : P_Probe(o)
    \/ \E ok \in BOOLEAN : P_LoginPassword(ok)
    \/ \E o \in ClickOutcomes : P_LoginContinue(o)
    \/ \E ok \in BOOLEAN : P_NameFill(ok)
    \/ \E o \in ClickOutcomes : P_Click2(o)
    \/ \E f \in BOOLEAN : P_CodeField(f)
    \/ \E g \in BOOLEAN, f \in BOOLEAN : P_Acquire(g, f)
    \/ \E ok \in BOOLEAN : P_Manual(ok)
    \/ \E o \in ClickOutcomes : P_VerifyClick(o)
    \/ \E o \in {"absent", "passwordFails", "confirmFails", "clickFails", "done"} :
          P_LoginReset(o)
    \/ \E o \in {"notFound", "confirmThrows", "done"} : P_RegPassword(o)
    \/ \E o \in ClickOutcomes : P_Click3(o)
    \/ \E o \in {"found", "empty", "absent", "throws"},
          clicked \in BOOLEAN, closed \in BOOLEAN : P_Harvest(o, clicked, closed)
    \/ P_TestLogin
    \/ \E ok \in BOOLEAN : P_Close(ok)
    \/ \E o \in {"success", "failure", "throws"}, deleted \in BOOLEAN :
          P_Sso(o, deleted)
    \/ \E deleted \in BOOLEAN : P_Catch(deleted)

ProvisionSpec == ProvInit /\ [][ProvNext]_vars

\* ================================================== waitAndClickWithRetry
\* (mutant) a re-click after every banner
ReclickAllowed_Always(retry, max) == TRUE

\* checkAndRetryOnError: if (retry < maxRetries - 1) before the re-click
ReclickAllowed(retry, max) == retry < max - 1

\* waitAndClickWithRetry has been called with maxRetries = cMax.
ClickInit ==
    /\ BatchIdle /\ ProvIdle /\ FillIdle /\ MailIdle /\ ExtractIdle /\ DismissIdle /\ ClearIdle
    /\ FingerprintIdle /\ StoreCallIdle /\ StartIdle /\ DeviceIdle
    /\ cMax \in 1..MaxClickRetries
    /\ cPc = "click"
    /\ cRetryCount = 0 /\ cRetry = 0
    /\ cClicks = 0 /\ cReclicks = 0 /\ cBanners = 0 /\ cAllReclicks = 0

\* The catch block of waitAndClickWithRetry: count, and back off or give up.
ClickCatch ==
    /\ cRetryCount' = cRetryCount + 1
    /\ cPc' = IF cRetryCount + 1 < cMax THEN "backoff" ELSE "false"

\* The try block up to the click: the waits, the mouse move, the click.
K_Click(ok) ==
    /\ cPc = "click"
    /\ IF ok
       THEN /\ cClicks' = cClicks + 1
            /\ cPc' = "check"
            /\ cRetry' = 0 /\ cReclicks' = 0 /\ cBanners' = 0
            /\ UNCHANGED cRetryCount
       ELSE /\ ClickCatch
            /\ UNCHANGED <<cClicks, cRetry, cReclicks, cBanners>>
    /\ UNCHANGED <<cMax, cAllReclicks, batchVars, provVars, fillVars, mailPollVars,
                   extractVars, fingerprintVars, storeCallVars, startVars,
                   deviceVars, dismissVars, clearVars>>

\* One pass of the loop of checkAndRetryOnError up to its re-click: the
\* wait of 1.5 s and the look for the banner.  A wait that throws lands in
\* the catch block of waitAndClickWithRetry.
K_Check(o) ==
    /\ cPc = "check"
    /\ CASE o = "clean" ->
              /\ cPc' = "true"
              /\ UNCHANGED <<cRetryCount, cRetry, cBanners>>
         [] o = "banner" ->
              /\ cBanners' = cBanners + 1
              /\ IF ReclickAllowed(cRetry, cMax)
                 THEN cPc' = "reclick" /\ UNCHANGED cRetry
                 ELSE /\ cRetry' = cRetry + 1
                      /\ cPc' = IF cRetry + 1 < cMax THEN "check" ELSE "false"
              /\ UNCHANGED cRetryCount
         [] o = "throws" ->
              /\ ClickCatch
              /\ UNCHANGED <<cRetry, cBanners>>
    /\ UNCHANGED <<cMax, cClicks, cReclicks, cAllReclicks, batchVars,
                   provVars, fillVars, mailPollVars, extractVars,
                   fingerprintVars, storeCallVars, startVars, deviceVars,
                   dismissVars, clearVars>>

\* The re-click of checkAndRetryOnError: the wait of retryDelay, then the
\* click, whose failure is swallowed; then the next pass of the loop.
K_Reclick(o) ==
    /\ cPc = "reclick"
    /\ CASE o = "waitThrows" ->
              /\ ClickCatch
              /\ UNCHANGED <<cRetry, cReclicks, cAllReclicks>>
         [] OTHER ->
              /\ cReclicks' = cReclicks + (IF o = "clicked" THEN 1 ELSE 0)
              /\ cAllReclicks' = cAllReclicks + (IF o = "clicked" THEN 1 ELSE 0)
              /\ cRetry' = cRetry + 1
              /\ cPc' = IF cRetry + 1 < cMax THEN "check" ELSE "false"
              /\ UNCHANGED cRetryCount
    /\ UNCHANGED <<cMax, cClicks, cBanners, batchVars, provVars, fillVars, mailPollVars,
                   extractVars, fingerprintVars, storeCallVars, startVars,
                   deviceVars, dismissVars, clearVars>>

\* The wait in the catch block of waitAndClickWithRetry before the next
\* attempt; it is not inside a try.
K_Backoff(ok) ==
    /\ cPc = "backoff"
    /\ cPc' = IF ok THEN "click" ELSE "thrown"
    /\ UNCHANGED <<cMax, cRetryCount, cRetry, cClicks, cReclicks, cBanners,
                   cAllReclicks, batchVars, provVars, fillVars, mailPollVars,
                   extractVars, fingerprintVars, storeCallVars, startVars,
                   deviceVars, dismissVars, clearVars>>

ClickNext ==
    \/ \E ok \in BOOLEAN : K_Click(ok)
    \/ \E o \in {"clean", "banner", "throws"} : K_Check(o)
    \/ \E o \in {"clicked", "failed", "waitThrows"} : K_Reclick(o)
    \/ \E ok \in BOOLEAN : K_Backoff(ok)

ClickSpec == ClickInit /\ [][ClickNext]_vars

\* ============================================================ waitAndFill
\* The steps of one attempt, each of which may throw.
FillSequence == <<"visible", "attached", "move", "clear", "focus", "type">>

\* waitAndFill has been called; the while test has been made once.
FillInit ==
    /\ BatchIdle /\ ProvIdle /\ ClickIdle /\ MailIdle /\ ExtractIdle /\ DismissIdle /\ ClearIdle
    /\ FingerprintIdle /\ StoreCallIdle /\ StartIdle /\ DeviceIdle
    /\ fMax \in 0..MaxFillRetries
    /\ fByChar \in BOOLEAN
    /\ fLen \in 1..MaxValueLen
    /\ fRetryCount = 0 /\ fTyped = 0
    /\ IF fMax > 0
       THEN fPc = "attempt" /\ fStep = 1 /\ fAttempts = 1
       ELSE fPc = "false" /\ fStep = 0 /\ fAttempts = 0

\* A step of the attempt goes through; the last one returns true.  With
\* typeCharByChar the type step is one keyboard.type per character.
F_StepDone ==
    /\ fPc = "attempt"
    /\ IF FillSequence[fStep] # "type"
       THEN fStep' = fStep + 1 /\ UNCHANGED <<fPc, fTyped>>
       ELSE LET n == IF fByChar THEN fTyped + 1 ELSE fLen
            IN  /\ fTyped' = n
                /\ fPc' = IF n = fLen THEN "true" ELSE "attempt"
                /\ UNCHANGED fStep
    /\ UNCHANGED <<fMax, fByChar, fLen, fRetryCount, fAttempts, batchVars,
                   provVars, clickVars, mailPollVars, extractVars,
                   fingerprintVars, storeCallVars, startVars, deviceVars,
                   dismissVars, clearVars>>

\* A step of the attempt throws: the catch block counts, and backs off or
\* returns false.
F_StepThrows ==
    /\ fPc = "attempt"
    /\ fRetryCount' = fRetryCount + 1
    /\ fPc' = IF fRetryCount + 1 < fMax THEN "backoff" ELSE "false"
    /\ UNCHANGED <<fMax, fByChar, fLen, fStep, fTyped, fAttempts, batchVars,
                   provVars, clickVars, mailPollVars, extractVars,
                   fingerprintVars, storeCallVars, startVars, deviceVars,
                   dismissVars, clearVars>>

\* The wait in the catch block before the next attempt; it is not inside a
\* try, so when it rejects the call rejects.
F_Backoff(ok) ==
    /\ fPc = "backoff"
    /\ IF ok
       THEN /\ fPc' = "attempt" /\ fStep' = 1 /\ fTyped' = 0
            /\ fAttempts' = fAttempts + 1
       ELSE /\ fPc' = "thrown"
            /\ UNCHANGED <<fStep, fTyped, fAttempts>>
    /\ UNCHANGED <<fMax, fByChar, fLen, fRetryCount, batchVars, provVars,
                   clickVars, mailPollVars, extractVars, fingerprintVars,
                   storeCallVars, startVars, deviceVars, dismissVars,
                   clearVars>>

FillNext ==
    \/ F_StepDone
    \/ F_StepThrows
    \/ \E ok \in BOOLEAN : F_Backoff(ok)

FillSpec == FillInit /\ [][FillNext]_vars

\* ============================================ waiting for the mailed code
\* A message as the poller sees it: from an allow-listed sender or from
\* another one, with or without an extractable code.  A message never
\* changes, so the Graph poller's checkedIds, which skips a message it has
\* already found no code in, does not change what a scan returns.
MsgKinds == {"other", "otherCode", "awsNoCode", "awsCode"}

\* The messages whose sender address holds no entry of AWS_SENDERS.
StrayKinds == {"other", "otherCode"}

RECURSIVE SeqsUpTo(_, _)
SeqsUpTo(S, n) ==
    IF n = 0 THEN {<<>>}
    ELSE LET shorter == SeqsUpTo(S, n - 1)
         IN  shorter \cup {Append(q, x) : q \in {t \in shorter : Len(t) = n - 1},
                                         x \in S}

MsgLists == SeqsUpTo(MsgKinds, MaxMsgs)

\* AWS_SENDERS.some(sender => fromAddress.includes(sender))
IsFromAWS_Never(kind) == FALSE
IsFromAWS_Anyone(kind) == TRUE
IsFromAWS(kind) == kind \in {"awsNoCode", "awsCode"}

\* extractCode on the content of the message
CarriesCode(kind) == kind \in {"awsCode", "otherCode"}

\* The first allow-listed message of l at or after position i (0: none).
FirstAws(l, i) ==
    LET idx == {j \in i..Len(l) : IsFromAWS(l[j])}
    IN  IF idx = {} THEN 0 ELSE CHOOSE j \in idx : \A k \in idx : j <= k

\* The Graph scan: the first message of l that passes the sender test and
\* yields a code (0: none), and the messages given to extractCode on the way.
GraphHit(l) ==
    LET idx == {j \in 1..Len(l) : IsFromAWS(l[j]) /\ CarriesCode(l[j])}
    IN  IF idx = {} THEN 0 ELSE CHOOSE j \in idx : \A k \in idx : j <= k

GraphExtracted(l) ==
    LET last == IF GraphHit(l) = 0 THEN Len(l) ELSE GraphHit(l)
    IN  {l[j] : j \in {k \in 1..last : IsFromAWS(l[k])}}

\* l shows an allow-listed message that carries a code.
HasCode(l) == \E j \in 1..Len(l) : l[j] = "awsCode"

\* A list or detail fetch that fails lands in the catch of the loop body (the
\* Graph poller also handles a non-ok list response itself): the error is
\* logged and the poller goes on to sleep one interval.
OnFetchError_Abort(backend) == "timeout"
OnFetchError(backend) == "sleep"

\* if (!accessToken) return null
OnTokenFailure_Retry(accessToken) == IF accessToken THEN "list" ELSE "sleep"
OnTokenFailure(accessToken) == IF accessToken THEN "list" ELSE "null"

Later(t, d) == IF t + d > WaitBudget THEN WaitBudget ELSE t + d

MailInit ==
    /\ mBackend \in {"disposable", "graph"}
    /\ mPc = "test" /\ mElapsed = 0 /\ mTry = 0
    /\ mList = <<>> /\ mIdx = 0 /\ mTokenPosts = 0 /\ mListFetches = 0
    /\ mDetailFetches = 0 /\ mSleeps = 0 /\ mCodeAt = 0 /\ mErrAfter = FALSE
    /\ mErrors = 0 /\ mStrayFetch = FALSE /\ mStrayExtract = FALSE
    /\ BatchIdle /\ ProvIdle /\ ClickIdle /\ FillIdle /\ ExtractIdle /\ DismissIdle /\ ClearIdle
    /\ FingerprintIdle /\ StoreCallIdle /\ StartIdle /\ DeviceIdle

\* while (Date.now() - startTime < maxWaitTime); after the loop the disposable
\* poller throws the timeout error and the Graph poller returns null.
M_Test ==
    /\ mPc = "test"
    /\ IF mElapsed < WaitBudget
       THEN IF mBackend = "graph"
            THEN mPc' = "token" /\ mTry' = 1
            ELSE mPc' = "list" /\ mTry' = mTry
       ELSE mPc' = "timeout" /\ mTry' = mTry
    /\ UNCHANGED <<mBackend, mElapsed, mList, mIdx, mTokenPosts, mListFetches,
                   mDetailFetches, mSleeps, mCodeAt, mErrAfter, mErrors,
                   mStrayFetch, mStrayExtract,
                   batchVars, provVars, clickVars, fillVars, extractVars,
                   fingerprintVars, storeCallVars, startVars, deviceVars,
                   dismissVars, clearVars>>

\* Graph: one request to a token endpoint.  "token": a 200 response with an
\* access_token; "empty": a 200 response without one, which still leaves the
\* loop over the endpoints; "fails": a non-200 response or a rejected
\* request, and the next endpoint is tried.
M_Token(o) ==
    /\ mPc = "token"
    /\ mTokenPosts' = mTokenPosts + 1
    /\ CASE o = "token" -> mPc' = OnTokenFailure(TRUE) /\ mTry' = mTry
         [] o = "empty" -> mPc' = OnTokenFailure(FALSE) /\ mTry' = mTry
         [] o = "fails" ->
                IF mTry < NumTokenEndpoints
                THEN mPc' = "token" /\ mTry' = mTry + 1
                ELSE mPc' = OnTokenFailure(FALSE) /\ mTry' = mTry
    /\ UNCHANGED <<mBackend, mElapsed, mList, mIdx, mListFetches,
                   mDetailFetches, mSleeps, mCodeAt, mErrAfter, mErrors,
                   mStrayFetch, mStrayExtract,
                   batchVars, provVars, clickVars, fillVars, extractVars,
                   fingerprintVars, storeCallVars, startVars, deviceVars,
                   dismissVars, clearVars>>

\* The list fetch succeeds after d intervals with the messages l.  The Graph
\* list carries the bodies, so its scan ends the wait at once; the
\* disposable scan stops at the first allow-listed message to fetch it.
M_ListOk(l, d) ==
    /\ mPc = "list"
    /\ mListFetches' = mListFetches + 1
    /\ mElapsed' = Later(mElapsed, d)
    /\ mList' = l
    /\ mCodeAt' = IF mCodeAt = 0 /\ HasCode(l) THEN mListFetches + 1
                  ELSE mCodeAt
    /\ IF mBackend = "graph"
       THEN /\ mIdx' = GraphHit(l)
            /\ mPc' = IF mIdx' = 0 THEN "sleep" ELSE "code"
            /\ mStrayExtract' =
                   (mStrayExtract \/ GraphExtracted(l) \cap StrayKinds # {})
       ELSE /\ mIdx' = FirstAws(l, 1)
            /\ mPc' = IF mIdx' = 0 THEN "sleep" ELSE "detail"
            /\ UNCHANGED mStrayExtract
    /\ UNCHANGED <<mBackend, mTry, mTokenPosts, mDetailFetches, mSleeps,
                   mErrAfter, mErrors, mStrayFetch, batchVars, provVars,
                   clickVars, fillVars, extractVars, fingerprintVars,
                   storeCallVars, startVars, deviceVars, dismissVars,
                   clearVars>>

\* The list fetch fails: getMessages throws on a rejected request or a
\* non-ok response; the Graph request rejects or answers non-ok.
M_ListFails(d) ==
    /\ mPc = "list"
    /\ mListFetches' = mListFetches + 1
    /\ mElapsed' = Later(mElapsed, d)
    /\ mErrors' = mErrors + 1
    /\ mPc' = OnFetchError(mBackend)
    /\ UNCHANGED <<mBackend, mTry, mList, mIdx, mTokenPosts, mDetailFetches,
                   mSleeps, mCodeAt, mErrAfter, mStrayFetch, mStrayExtract,
                   batchVars, provVars, clickVars, fillVars, extractVars,
                   fingerprintVars, storeCallVars, startVars, deviceVars,
                   dismissVars, clearVars>>

\* Disposable: the detail of message mIdx arrives (or the fetch fails, which
\* ends the scan of this list).
M_Detail(ok) ==
    /\ mPc = "detail"
    /\ mDetailFetches' = mDetailFetches + 1
    /\ mStrayFetch' = (mStrayFetch \/ mList[mIdx] \in StrayKinds)
    /\ mStrayExtract' =
           (mStrayExtract \/ (ok /\ mList[mIdx] \in StrayKinds))
    /\ IF ok
       THEN /\ IF CarriesCode(mList[mIdx])
               THEN mPc' = "code" /\ mIdx' = mIdx
               ELSE /\ mIdx' = FirstAws(mList, mIdx + 1)
                    /\ mPc' = IF mIdx' = 0 THEN "sleep" ELSE "detail"
            /\ UNCHANGED <<mErrors, mErrAfter>>
       ELSE /\ mPc' = OnFetchError(mBackend)
            /\ mErrors' = mErrors + 1
            /\ mErrAfter' = (mErrAfter \/ mCodeAt > 0)
            /\ mIdx' = mIdx
    /\ UNCHANGED <<mBackend, mElapsed, mTry, mList, mTokenPosts, mListFetches,
                   mSleeps, mCodeAt, batchVars, provVars, clickVars,
                   fillVars, extractVars, fingerprintVars, storeCallVars,
                   startVars, deviceVars, dismissVars, clearVars>>

\* await new Promise(resolve => setTimeout(resolve, checkInterval))
M_Sleep ==
    /\ mPc = "sleep"
    /\ mSleeps' = mSleeps + 1
    /\ mElapsed' = Later(mElapsed, 1)
    /\ mPc' = "test"
    /\ UNCHANGED <<mBackend, mTry, mList, mIdx, mTokenPosts, mListFetches,
                   mDetailFetches, mCodeAt, mErrAfter, mErrors, mStrayFetch,
                   mStrayExtract, batchVars,
                   provVars, clickVars, fillVars, extractVars,
                   fingerprintVars, storeCallVars, startVars, deviceVars,
                   dismissVars, clearVars>>

MailNext ==
    \/ M_Test
    \/ \E o \in {"token", "empty", "fails"} : M_Token(o)
    \/ \E l \in MsgLists, d \in 0..1 : M_ListOk(l, d)
    \/ \E d \in 0..1 : M_ListFails(d)
    \/ \E ok \in BOOLEAN : M_Detail(ok)
    \/ M_Sleep

MailSpec == MailInit /\ [][MailNext]_vars

\* Every request settles and every timer fires.
MailFairSpec == MailSpec /\ WF_vars(MailNext)

\* ============================================================ extractCode
\* A text is a sequence of characters, each a one-character string; the
\* three characters outside ASCII are written by their code points.  The
\* patterns carry the i flag: the texts of the model are in lower case.
Digits == {"0", "1", "2", "3", "4", "5", "6", "7", "8", "9"}
Spaces == {" ", "\n"}
Separators == {"uFF1A", ":"} \cup Spaces
Letters == {"a", "b", "c", "d", "e", "f", "g", "h", "i", "j", "k", "l", "m",
            "n", "o", "p", "q", "r", "s", "t", "u", "v", "w", "x", "y", "z"}
WordChars == Letters \cup Digits \cup {"_"}

SetMin(S) == CHOOSE x \in S : \A y \in S : x <= y
SetMax(S) == CHOOSE x \in S : \A y \in S : x >= y

\* The literal w stands in t at position p.
Lit(t, p, w) ==
    /\ p >= 1 /\ p + Len(w) - 1 <= Len(t)
    /\ \A i \in 1..Len(w) : t[p + i - 1] = w[i]

\* A greedy class*: the first position from p on whose character is not in C.
Skip(t, p, C) ==
    LET stops == {q \in p..Len(t) : t[q] \notin C}
    IN  IF stops = {} THEN Len(t) + 1 ELSE SetMin(stops)

\* (\d{6}) at position q
Six(t, q) == q + 5 <= Len(t) /\ \A i \in 0..5 : t[q + i] \in Digits

Contains(t, w) == \E p \in 1..Len(t) : Lit(t, p, w)

NoMatch == [index |-> 0, last |-> 0, code |-> <<>>]
Found(t, p, q, last) == [index |-> p, last |-> last, code |-> SubSeq(t, q, q + 5)]

\* (?:verification\s*code|U+9A8C U+8BC1 U+7801|Your code is|code is): the
\* position after the label that starts at p, 0 when none does.
AfterLabel(t, p) ==
    IF Lit(t, p, <<"v", "e", "r", "i", "f", "i", "c", "a", "t", "i", "o", "n">>)
    THEN LET q == Skip(t, p + 12, Spaces)
         IN  IF Lit(t, q, <<"c", "o", "d", "e">>) THEN q + 4 ELSE 0
    ELSE IF Lit(t, p, <<"u9A8C", "u8BC1", "u7801">>) THEN p + 3
    ELSE IF Lit(t, p, <<"y", "o", "u", "r", " ", "c", "o", "d", "e", " ",
                        "i", "s">>) THEN p + 12
    ELSE IF Lit(t, p, <<"c", "o", "d", "e", " ", "i", "s">>) THEN p + 7
    ELSE 0

\* (?:is|U+4E3A)
AfterIs(t, p) ==
    IF Lit(t, p, <<"i", "s">>) THEN p + 2
    ELSE IF Lit(t, p, <<"u4E3A">>) THEN p + 1
    ELSE 0

\* CODE_PATTERNS[n - 1] matched with its first character at position p.
PatternAt(n, t, p) ==
    CASE n = 1 ->
           LET e == AfterLabel(t, p)
               q == Skip(t, e, Separators)
           IN  IF e # 0 /\ Six(t, q) THEN Found(t, p, q, q + 5) ELSE NoMatch
      [] n = 2 ->
           LET e == AfterIs(t, p)
               q == Skip(t, e, Separators)
           IN  IF e # 0 /\ Six(t, q)
                  /\ (q + 6 > Len(t) \/ t[q + 6] \notin WordChars)
               THEN Found(t, p, q, q + 5) ELSE NoMatch
      [] n = 3 ->
           \* ^\s*(\d{6})\s*$ with the m flag: the trailing \s* is greedy
           \* and gives back to the last line end it ran over.
           LET q == Skip(t, p, Spaces)
               r == Skip(t, q + 6, Spaces)
               ends == {k \in (q + 6)..(r - 1) : t[k] = "\n"}
           IN  IF (p = 1 \/ t[p - 1] = "\n") /\ Six(t, q)
                  /\ (r = Len(t) + 1 \/ ends # {})
               THEN Found(t, p, q,
                          IF r = Len(t) + 1 THEN Len(t) ELSE SetMax(ends) - 1)
               ELSE NoMatch
      [] n = 4 ->
           LET q == Skip(t, p + 1, Spaces)
               r == Skip(t, q + 6, Spaces)
           IN  IF t[p] = ">" /\ Six(t, q) /\ r <= Len(t) /\ t[r] = "<"
               THEN Found(t, p, q, r) ELSE NoMatch

\* pattern.exec(text) with lastIndex = from - 1: the leftmost match.
Exec(n, t, from) ==
    LET at == {p \in from..Len(t) : PatternAt(n, t, p) # NoMatch}
    IN  IF at = {} THEN NoMatch ELSE PatternAt(n, t, SetMin(at))

ContextRadius == 20

\* text.slice(Math.max(0, match.index - 20),
\*            Math.min(text.length, match.index + match[0].length + 20))
Context(t, m) ==
    SubSeq(t, IF m.index - ContextRadius < 1 THEN 1
              ELSE m.index - ContextRadius,
              IF m.last + ContextRadius > Len(t) THEN Len(t)
              ELSE m.last + ContextRadius)

\* /color[:\s]*[^;]*\d{6}/i
ColourDeclaration(c) ==
    \E p \in 1..Len(c) :
        /\ Lit(c, p, <<"c", "o", "l", "o", "r">>)
        /\ \E q \in (p + 5)..Len(c) :
               Six(c, q) /\ \A k \in (p + 5)..(q - 1) : c[k] # ";"

\* /\d{7,}/
LongRun(c) == \E p \in 1..Len(c) : Six(c, p) /\ p + 6 <= Len(c) /\ c[p + 6] \in Digits

\* The four continue statements of the match loop.
Excluded_HashOnly(c, code) == Contains(c, <<"#">> \o code)
Excluded(c, code) ==
    \/ Contains(c, <<"#">> \o code)
    \/ ColourDeclaration(c)
    \/ Contains(c, <<"r", "g", "b">>) \/ Contains(c, <<"r", "g", "b", "a">>)
    \/ Contains(c, <<"h", "s", "l">>)
    \/ LongRun(c)

\* while ((match = pattern.exec(text)) !== null): the first match of
\* pattern n from position from on that is not excluded.
RECURSIVE ScanPattern(_, _, _)
ScanPattern(n, t, from) ==
    LET m == Exec(n, t, from)
    IN  IF m = NoMatch THEN NoMatch
        ELSE IF Excluded(Context(t, m), m.code)
             THEN ScanPattern(n, t, m.last + 1)
             ELSE m

\* for (const pattern of CODE_PATTERNS): the pattern tried k-th.
PatternInTurn_Reversed(k) == 5 - k
PatternInTurn(k) == k

NumPatterns == 4

\* The match extractCode returns the code of (NoMatch: it returns null).
ExtractMatch(t) ==
    LET hits == {k \in 1..NumPatterns :
                    ScanPattern(PatternInTurn(k), t, 1) # NoMatch}
    IN  IF t = <<>> \/ hits = {} THEN NoMatch
        ELSE ScanPattern(PatternInTurn(SetMin(hits)), t, 1)

extractCode(t) == ExtractMatch(t).code

\* The pieces the texts of the model are put together from.
CodeA == <<"4", "8", "2", "9", "1", "3">>
CodeB == <<"1", "3", "5", "7", "9", "0">>
Filler == [i \in 1..ContextRadius |-> "."]
Pieces ==
    { <<"c", "o", "d", "e", " ", "i", "s", " ">>,
      <<"i", "s", " ">>,
      CodeA, CodeB \o <<"\n">>, <<"5">>, <<"#">>,
      <<"c", "o", "l", "o", "r", ":">>,
      <<"c", "o", "l", "o", "r", ":", " ", "r", "e", "d", ";", " ">>,
      <<"r", "g", "b">>,
      <<"\n">>, <<">">>, <<"<">>, <<"x">>,
      Filler }

RECURSIVE Flatten(_)
Flatten(ps) == IF ps = <<>> THEN <<>> ELSE Head(ps) \o Flatten(Tail(ps))

Texts == {Flatten(ps) : ps \in SeqsUpTo(Pieces, MaxPieces)}

ExtractInit ==
    /\ xPc = "call" /\ xText \in Texts /\ xMatch = NoMatch
    /\ BatchIdle /\ ProvIdle /\ ClickIdle /\ FillIdle /\ MailIdle /\ DismissIdle /\ ClearIdle
    /\ FingerprintIdle /\ StoreCallIdle /\ StartIdle /\ DeviceIdle

X_Extract ==
    /\ xPc = "call"
    /\ xMatch' = ExtractMatch(xText)
    /\ xPc' = "returned"
    /\ UNCHANGED <<xText, batchVars, provVars, clickVars, fillVars,
                   mailPollVars, fingerprintVars, storeCallVars, startVars,
                   deviceVars, dismissVars, clearVars>>

ExtractNext == X_Extract

ExtractSpec == ExtractInit /\ [][ExtractNext]_vars

\* =============================================== generateSmartFingerprint
\* A user agent is modelled by the device tokens its string contains; the
\* strings of USER_AGENTS differ beyond that only in versions and models.
AndroidAgent == {"Linux", "Android", "Chrome", "Mobile", "Safari"}
IPhoneAgent == {"iPhone", "CPU iPhone OS", "Mac OS X", "Mobile", "Safari"}
IPadAgent == {"iPad", "CPU OS", "Mac OS X", "Mobile", "Safari"}

USER_AGENTS ==
    <<AndroidAgent, AndroidAgent, AndroidAgent, AndroidAgent, AndroidAgent,
      AndroidAgent, IPhoneAgent, IPhoneAgent, IPhoneAgent, IPhoneAgent,
      IPadAgent, IPadAgent>>

VIEWPORTS ==
    <<<<375, 667>>, <<390, 844>>, <<393, 852>>, <<414, 896>>, <<428, 926>>,
      <<360, 640>>, <<412, 915>>, <<384, 854>>, <<360, 780>>,
      <<768, 1024>>, <<820, 1180>>>>

LOCALES ==
    <<"en-US", "en-GB", "zh-CN", "zh-TW", "ja-JP", "ko-KR", "de-DE", "fr-FR",
      "es-ES">>

TIMEZONES ==
    <<"America/New_York", "America/Los_Angeles", "America/Chicago",
      "Europe/London", "Europe/Paris", "Europe/Berlin", "Asia/Shanghai",
      "Asia/Tokyo", "Asia/Seoul", "Australia/Sydney">>

PLATFORMS == <<"Linux armv8l", "Linux aarch64", "iPhone", "iPad">>

DEVICE_SCALE_FACTORS == <<2, 3>>

\* randomChoice(array): array[Math.floor(Math.random() * array.length)], any
\* element of the array.
RandomChoices(array) == {array[i] : i \in 1..Len(array)}

\* userAgent.includes(token)
Includes(userAgent, token) == token \in userAgent

getPlatformFromUserAgent_Fixed(userAgent) == "Linux armv8l"
getPlatformFromUserAgent(userAgent) ==
    IF Includes(userAgent, "iPhone") THEN "iPhone"
    ELSE IF Includes(userAgent, "iPad") THEN "iPad"
    ELSE IF Includes(userAgent, "Android") THEN "Linux armv8l"
    ELSE "Linux armv8l"

FingerprintInit ==
    /\ fpPc = "call" /\ fpResult = NoFingerprint
    /\ BatchIdle /\ ProvIdle /\ ClickIdle /\ FillIdle /\ MailIdle /\ DismissIdle /\ ClearIdle
    /\ StoreCallIdle /\ StartIdle /\ DeviceIdle
    /\ ExtractIdle

generateSmartFingerprint ==
    /\ fpPc = "call"
    /\ \E userAgent \in RandomChoices(USER_AGENTS),
          viewport \in RandomChoices(VIEWPORTS),
          locale \in RandomChoices(LOCALES),
          timezone \in RandomChoices(TIMEZONES),
          deviceScaleFactor \in RandomChoices(DEVICE_SCALE_FACTORS) :
          fpResult' = [userAgent |-> userAgent,
                       viewport |-> viewport,
                       locale |-> locale,
                       timezone |-> timezone,
                       platform |-> getPlatformFromUserAgent(userAgent),
                       deviceScaleFactor |-> deviceScaleFactor]
    /\ fpPc' = "returned"
    /\ UNCHANGED <<batchVars, provVars, clickVars, fillVars, mailPollVars,
                   extractVars, storeCallVars, startVars, deviceVars,
                   dismissVars, clearVars>>

FingerprintNext == generateSmartFingerprint

FingerprintSpec == FingerprintInit /\ [][FingerprintNext]_vars

\* The other exported generator: every field is its own randomChoice.
generateRandomFingerprint ==
    /\ fpPc = "call"
    /\ \E userAgent \in RandomChoices(USER_AGENTS),
          viewport \in RandomChoices(VIEWPORTS),
          locale \in RandomChoices(LOCALES),
          timezone \in RandomChoices(TIMEZONES),
          platform \in RandomChoices(PLATFORMS),
          deviceScaleFactor \in RandomChoices(DEVICE_SCALE_FACTORS) :
          fpResult' = [userAgent |-> userAgent,
                       viewport |-> viewport,
                       locale |-> locale,
                       timezone |-> timezone,
                       platform |-> platform,
                       deviceScaleFactor |-> deviceScaleFactor]
    /\ fpPc' = "returned"
    /\ UNCHANGED <<batchVars, provVars, clickVars, fillVars, mailPollVars,
                   extractVars, storeCallVars, startVars, deviceVars,
                   dismissVars, clearVars>>

RandomFingerprintNext == generateRandomFingerprint

RandomFingerprintSpec == FingerprintInit /\ [][RandomFingerprintNext]_vars

\* ===================================================== DeviceConnectionService
\* The socket.io client is the environment: a socket made by io() is
\* "connecting" until its first 'connect', "connected", "reconnecting" after a
\* loss its manager retries (reconnection: true), and "closed" once it was
\* disconnected on purpose, by either side, or its manager gave up: after
\* reconnectionAttempts failed reconnections, which follow the failed first
\* attempt of a socket that never connected.
ReconnectionAttempts == 5

Tokens == 1..NumTokens

Connected(cur, ss) == cur # 0 /\ ss[cur].state = "connected"

\* register(): nothing unless this.socket is connected.
register(cur, ss) ==
    IF Connected(cur, ss)
    THEN <<[event |-> "device:register", socket |-> cur,
            token |-> authToken]>>
    ELSE <<>>

\* sendHeartbeat(): nothing unless this.socket is connected.
sendHeartbeat(cur, ss) ==
    IF Connected(cur, ss)
    THEN <<[event |-> "device:heartbeat", socket |-> cur, token |-> 0]>>
    ELSE <<>>

ConnectEmits_HeartbeatFirst(cur, ss) ==
    sendHeartbeat(cur, ss) \o register(cur, ss)

\* The 'connect' handler: register(), then startHeartbeat(), which sends one
\* heartbeat at once.
ConnectEmits(cur, ss) == register(cur, ss) \o sendHeartbeat(cur, ss)

\* socket.disconnect() on this.socket; the 'disconnect' event it raises runs
\* stopHeartbeat a second time.
Close(cur, ss) ==
    IF cur = 0 THEN ss ELSE [ss EXCEPT ![cur].state = "closed"]

\* The sockets that hold a connection on which device:register went out.
Registered(ss, out) ==
    {s \in SockIds :
        /\ ss[s].state = "connected"
        /\ \/ s \in registered /\ sockets[s].state = "connected"
           \/ \E k \in DOMAIN out :
                 out[k].event = "device:register" /\ out[k].socket = s}

DeviceFrame ==
    UNCHANGED <<batchVars, provVars, clickVars, fillVars, mailPollVars,
                extractVars, fingerprintVars, storeCallVars, startVars,
                   dismissVars, clearVars>>

DeviceInit ==
    /\ DeviceIdle
    /\ BatchIdle /\ ProvIdle /\ ClickIdle /\ FillIdle /\ MailIdle /\ DismissIdle /\ ClearIdle
    /\ ExtractIdle /\ FingerprintIdle /\ StoreCallIdle /\ StartIdle

\* connect(): a connected socket is disconnected first, any other is left as
\* it is; then the credentials are stored and a new socket is made.
connect(token) ==
    /\ \E s \in SockIds : sockets[s].state = "unused"
    /\ LET n == SetMin({s \in SockIds : sockets[s].state = "unused"})
           first == Connected(socket, sockets)
           ss == IF first THEN Close(socket, sockets) ELSE sockets
       IN  /\ heartbeatInterval' = (~first /\ heartbeatInterval)
           /\ sockets' = [ss EXCEPT ![n].state = "connecting"]
           /\ socket' = n
           /\ registered' = Registered(sockets', <<>>)
    /\ authToken' = token
    /\ emitted' = <<>>
    /\ authFailed' = FALSE
    /\ DeviceFrame

\* disconnect(), called from outside.
disconnect ==
    /\ socket # 0 \/ heartbeatInterval
    /\ heartbeatInterval' = FALSE
    /\ sockets' = Close(socket, sockets)
    /\ socket' = 0
    /\ emitted' = <<>>
    /\ registered' = Registered(sockets', <<>>)
    /\ UNCHANGED <<authToken, authFailed>>
    /\ DeviceFrame

\* 'connect' on socket s, the first or after a reconnection.
OnConnect(s) ==
    /\ sockets[s].state \in {"connecting", "reconnecting"}
    /\ sockets' = [sockets EXCEPT
                       ![s] = [state |-> "connected", attempts |-> 0,
                               again |-> sockets[s].state = "reconnecting"]]
    /\ emitted' = ConnectEmits(socket, sockets')
    /\ heartbeatInterval' = TRUE
    /\ registered' = Registered(sockets', emitted')
    /\ UNCHANGED <<socket, authToken, authFailed>>
    /\ DeviceFrame

\* 'disconnect' on socket s that the client did not ask for: the manager
\* reconnects after a lost transport, not after the server closed the socket.
OnDisconnect(s, lost) ==
    /\ sockets[s].state = "connected"
    /\ sockets' = [sockets EXCEPT
                       ![s].state = IF lost THEN "reconnecting" ELSE "closed"]
    /\ heartbeatInterval' = FALSE
    /\ emitted' = <<>>
    /\ registered' = Registered(sockets', <<>>)
    /\ UNCHANGED <<socket, authToken, authFailed>>
    /\ DeviceFrame

\* 'connect_error' on socket s: logged; the manager tries again or gives up.
OnConnectError(s) ==
    /\ sockets[s].state \in {"connecting", "reconnecting"}
    /\ LET allowed == IF sockets[s].state = "connecting"
                      THEN ReconnectionAttempts + 1
                      ELSE ReconnectionAttempts
       IN  sockets' =
              [sockets EXCEPT ![s] =
                  IF sockets[s].attempts + 1 = allowed
                  THEN [@ EXCEPT !.state = "closed", !.attempts = 0]
                  ELSE [@ EXCEPT !.attempts = @ + 1]]
    /\ emitted' = <<>>
    /\ UNCHANGED <<socket, authToken, heartbeatInterval, registered,
                   authFailed>>
    /\ DeviceFrame

\* 'device:registered' on socket s.
OnRegistered(s, success) ==
    /\ sockets[s].state = "connected"
    /\ emitted' = IF success THEN sendHeartbeat(socket, sockets) ELSE <<>>
    /\ UNCHANGED <<socket, authToken, heartbeatInterval, sockets, registered,
                   authFailed>>
    /\ DeviceFrame

\* 'device:error' on socket s: 'Authentication failed' calls disconnect().
OnError(s, message) ==
    /\ sockets[s].state = "connected"
    /\ IF message = "Authentication failed"
       THEN /\ heartbeatInterval' = FALSE
            /\ sockets' = Close(socket, sockets)
            /\ socket' = 0
            /\ authFailed' = TRUE
       ELSE UNCHANGED <<heartbeatInterval, sockets, socket, authFailed>>
    /\ emitted' = <<>>
    /\ registered' = Registered(sockets', <<>>)
    /\ UNCHANGED authToken
    /\ DeviceFrame

\* The interval of startHeartbeat fires.
HeartbeatTick ==
    /\ heartbeatInterval
    /\ emitted' = sendHeartbeat(socket, sockets)
    /\ UNCHANGED <<socket, authToken, heartbeatInterval, sockets, registered,
                   authFailed>>
    /\ DeviceFrame

DeviceNext ==
    \/ \E token \in Tokens : connect(token)
    \/ disconnect
    \/ \E s \in SockIds : OnConnect(s)
    \/ \E s \in SockIds, lost \in BOOLEAN : OnDisconnect(s, lost)
    \/ \E s \in SockIds : OnConnectError(s)
    \/ \E s \in SockIds, success \in BOOLEAN : OnRegistered(s, success)
    \/ \E s \in SockIds, message \in {"Authentication failed", "other"} :
          OnError(s, message)
    \/ HeartbeatTick

DeviceSpec == DeviceInit /\ [][DeviceNext]_vars

\* ====================================== the dialog after the token is harvested
\* Texts are sequences of characters; a character outside ASCII is written
\* as its code point.
TextConfirm == <<"C", "o", "n", "f", "i", "r", "m">>
TextCancel == <<"C", "a", "n", "c", "e", "l">>
TextBack == <<"B", "a", "c", "k">>
TextOK == <<"O", "K">>
TextBook == <<"B", "o", "o", "k">>
TextAllow == <<"U+5141", "U+8BB8">>

ButtonTexts ==
    {TextConfirm, TextCancel, TextBack, TextOK, TextBook, TextAllow}

\* What page.locator('button').all() can find: textContent() gives a text or
\* null (also when it fails), isVisible() true or false (also when it fails).
Buttons ==
    [visible : BOOLEAN, hasText : {TRUE}, text : ButtonTexts]
        \cup [visible : BOOLEAN, hasText : {FALSE}, text : {<<>>}]

confirmKeywords ==
    <<<<"U+786E", "U+8BA4">>, <<"c", "o", "n", "f", "i", "r", "m">>,
      <<"c", "o", "n", "t", "i", "n", "u", "e">>, <<"U+5B8C", "U+6210">>,
      <<"f", "i", "n", "i", "s", "h">>, <<"d", "o", "n", "e">>,
      <<"o", "k">>, <<"a", "l", "l", "o", "w">>, <<"U+5141", "U+8BB8">>>>

UpperCase == [c \in {"B", "C", "O", "K"} |->
                 CASE c = "B" -> "b" [] c = "C" -> "c"
                   [] c = "O" -> "o" [] c = "K" -> "k"]

toLowerCase(t) ==
    [i \in DOMAIN t |-> IF t[i] \in DOMAIN UpperCase THEN UpperCase[t[i]]
                        ELSE t[i]]

\* confirmKeywords.some(keyword => (text || '').toLowerCase().includes(keyword))
IsConfirm(b) ==
    \E k \in DOMAIN confirmKeywords :
        Contains(toLowerCase(IF b.hasText THEN b.text ELSE <<>>),
                 confirmKeywords[k])

\* The indices of the visible buttons, in the order of the page.
visibleButtons(bs) == SelectSeq([i \in DOMAIN bs |-> i], LAMBDA i : bs[i].visible)

ChosenButton_NoFallback(bs) ==
    LET vis == visibleButtons(bs)
        hits == SelectSeq(vis, LAMBDA i : IsConfirm(bs[i]))
    IN  IF vis = <<>> THEN 0
        ELSE IF Len(vis) = 1 THEN vis[1]
        ELSE IF hits # <<>> THEN hits[1]
        ELSE 0

\* The button the block clicks, 0 for none: the only visible one, else the
\* first visible one with a keyword in its text, else the first visible one.
ChosenButton(bs) ==
    LET vis == visibleButtons(bs)
        hits == SelectSeq(vis, LAMBDA i : IsConfirm(bs[i]))
    IN  IF vis = <<>> THEN 0
        ELSE IF Len(vis) = 1 THEN vis[1]
        ELSE IF hits # <<>> THEN hits[1]
        ELSE vis[1]

\* Where the block can throw: in locator(...).all(), in click(), in the
\* delay after the click.
Failures == {"none", "locator", "click", "delay"}

DismissInit ==
    /\ dsPc = "harvested"
    /\ buttons \in SeqsUpTo(Buttons, MaxButtons)
    /\ dsFailure \in Failures
    /\ clickedButton = 0 /\ dsCaught = FALSE
    /\ BatchIdle /\ ProvIdle /\ ClickIdle /\ FillIdle /\ MailIdle /\ ClearIdle
    /\ ExtractIdle /\ FingerprintIdle /\ StoreCallIdle /\ StartIdle
    /\ DeviceIdle

\* The try block after the cookie was found, up to the break; its catch logs.
Dismiss ==
    /\ dsPc = "harvested"
    /\ LET b == IF dsFailure = "locator" THEN 0 ELSE ChosenButton(buttons)
       IN  /\ clickedButton' = IF dsFailure = "click" THEN 0 ELSE b
           /\ dsCaught' = (dsFailure = "locator" \/ (dsFailure # "none" /\ b # 0))
    /\ dsPc' = "break"
    /\ UNCHANGED <<buttons, dsFailure>>
    /\ UNCHANGED <<batchVars, provVars, clickVars, fillVars, mailPollVars,
                   extractVars, fingerprintVars, storeCallVars, startVars,
                   deviceVars, clearVars>>

DismissNext == Dismiss

DismissSpec == DismissInit /\ [][DismissNext]_vars

\* ================================================== the list and its counts
\* The accounts in the list of the store.
Listed == Ids \ removed

CountOf(st) == Cardinality({id \in Listed : accounts[id] = st})

getStats_GettingCode ==
    [total |-> Cardinality(Listed),
     pending |-> CountOf("pending"),
     running |-> CountOf("getting_code"),
     success |-> CountOf("success"),
     failed |-> CountOf("failed"),
     exists |-> CountOf("exists")]

getStats ==
    [total |-> Cardinality(Listed),
     pending |-> CountOf("pending"),
     running |-> CountOf("registering"),
     success |-> CountOf("success"),
     failed |-> CountOf("failed"),
     exists |-> CountOf("exists")]

\* handleClear: an alert while a run is on, clearAccounts otherwise, which
\* tests isRunning itself before it empties the list.
handleClear ==
    /\ clearCalls < MaxClears
    /\ clearCalls' = clearCalls + 1
    /\ removed' = IF isRunning THEN removed ELSE Ids
    /\ UNCHANGED <<batchVars, provVars, clickVars, fillVars, mailPollVars,
                   extractVars, fingerprintVars, storeCallVars, startVars,
                   deviceVars, dismissVars>>

\* The page with its clear button; the start button needs a list that is
\* not empty.
ClearNext ==
    \/ handleClear
    \/ \E n \in ConcurrencyChoices : SetConcurrency(n)
    \/ removed = {} /\ StartRegistration
    \/ StopRegistration
    \/ \E r \in RunIds, id \in Ids, o \in {"success", "failed", "throw"} :
          RegisterReply(r, id, o)
    \/ \E r \in RunIds, id \in Ids : ImportReply(r, id)

ClearSpec == BatchInit /\ [][ClearNext]_vars

\* ----------------------------------------------------------------- claims
InFlightIds(r) == {id \in Ids : taskPc[r][id] \in {"register", "import"}}
InFlight(r) == Cardinality(InFlightIds(r))
Terminal == {"success", "failed"}

\* C1: within one batch run the number of provisioning tasks in flight
\* (started, not yet returned) never exceeds the concurrency the run was
\* started with, which is in 1..10.
C1_InFlightBounded ==
    \A r \in RunIds :
        runPc[r] # "idle" =>
            /\ limit[r] \in MinConcurrency..MaxConcurrency
            /\ InFlight(r) <= limit[r]

\* C1 witness: a run at its limit of two with an account still queued.
C1_Witness ==
    \E r \in RunIds :
        /\ runPc[r] = "await" /\ limit[r] = 2
        /\ InFlight(r) = 2 /\ queue[r] # <<>>

\* A run that was not asked to stop has ended: nothing queued, nothing in
\* flight, isRunning false, every account it took up terminal and started
\* exactly once.
RunFinished(r) ==
    /\ runPc[r] = "done"
    /\ queue[r] = <<>> /\ running[r] = <<>> /\ InFlight(r) = 0
    /\ ~isRunning
    /\ \A id \in Ids :
          /\ accounts[id] # "pending"
          /\ taskPc[r][id] # "none" =>
                starts[id] = 1 /\ accounts[id] \in Terminal

\* C2: when the stop flag is never set and every started task replies, a
\* run starts each pending account exactly once, each reaches 'success' or
\* 'failed', and the run ends with its queue empty, nothing in flight and
\* isRunning false.
C2_RunCompletes ==
    /\ [](\A id \in Ids : starts[id] <= 1)
    /\ [](\A r \in RunIds :
            (r = nRuns /\ runPc[r] = "done" /\ ~shouldStop) => RunFinished(r))
    /\ (isRunning /\ ~shouldStop) ~> (shouldStop \/ \E r \in RunIds : r = nRuns /\ RunFinished(r))

\* C2 witness: an unstopped run over at least two accounts has ended.
C2_Witness ==
    /\ ~shouldStop /\ nRuns = 1 /\ RunFinished(1)
    /\ Cardinality({id \in Ids : taskPc[1][id] = "done"}) >= 2
    /\ \E id \in Ids : accounts[id] = "success"
    /\ \E id \in Ids : accounts[id] = "failed"

\* A task in flight only moves on by its own replies.
TaskStep(r, id) ==
    \/ taskPc'[r][id] = taskPc[r][id]
    \/ /\ taskPc[r][id] = "register" /\ taskPc'[r][id] = "import"
       /\ accounts'[id] = "success"
    \/ /\ taskPc[r][id] = "register" /\ taskPc'[r][id] = "done"
       /\ accounts'[id] = "failed"
    \/ /\ taskPc[r][id] = "import" /\ taskPc'[r][id] = "done"
       /\ accounts[id] = "success" /\ accounts'[id] = "success"

C3_Step(r) ==
    /\ (runPc[r] = "await" /\ shouldStop) =>
          \A id \in SeqToSet(queue[r]) :
              accounts[id] = "pending" /\ accounts'[id] = "pending"
    /\ (runPc[r] = "done" \/ (runPc[r] = "await" /\ shouldStop)) =>
          /\ queue'[r] = queue[r]
          /\ \A id \in SeqToSet(queue[r]) :
                /\ taskPc[r][id] = "none" /\ taskPc'[r][id] = "none"
                /\ (accounts[id] = "pending" /\ accounts'[id] # "pending") =>
                      \E r2 \in RunIds \ {r} :
                          taskPc[r2][id] = "none" /\ taskPc'[r2][id] = "register"
    /\ \A id \in InFlightIds(r) : TaskStep(r, id)

C4_Step(r) ==
    (/\ runPc[r] = "await" /\ ~shouldStop /\ queue[r] # <<>>
     /\ \E id \in Ids : taskPc[r][id] # "done" /\ taskPc'[r][id] = "done")
    => /\ taskPc'[r][Head(queue[r])] = "register"
       /\ accounts'[Head(queue[r])] = "registering"
       /\ runPc'[r] = "await"

C4_WorkConserving ==
    /\ [](\A r \in RunIds :
            runPc[r] = "await" =>
                InFlight(r) = Min(limit[r], Len(queue[r]) + InFlight(r)))
    /\ [][\A r \in RunIds : C4_Step(r)]_vars

\* C4 witness: a run of limit two waits with two in flight, one of them
\* started after an earlier task returned while its peer was still running.
C4_Witness ==
    \E r \in RunIds :
        /\ runPc[r] = "await" /\ limit[r] = 2 /\ InFlight(r) = 2
        /\ Cardinality({id \in Ids : taskPc[r][id] # "none"}) = 3

\* ------------------------------------------------ claims: autoRegisterAWS
\* The run got to the point where the verification code is obtained.
AcquisitionDone == consulted # {} \/ manualWaits > 0

\* The run is past the branch's own first step (password, or name).
PastIdentityStep ==
    \/ pc \in {"codeField", "acquire", "manual", "verifyClick", "loginReset",
               "regPassword", "click3", "harvest", "testLogin", "close", "sso"}
    \/ AcquisitionDone \/ ssoToken \/ ssoCalls > 0

\* C5: in every run that created a temporary mailbox, deleteMailbox has been
\* attempted for it exactly once when the run returns, whether it returns
\* success, the failure of the SSO exchange, or a thrown failure.
C5_DeletedExactlyOnce ==
    (pc = "returned" /\ tempMailbox) => deleteCalls = 1

\* C5: the exit on which the claim fails: the SSO exchange answered with a
\* failure and the run returned with the mailbox never deleted.
C5_Witness ==
    /\ pc = "returned" /\ tempMailbox /\ ssoCalls = 1 /\ result = "failed"
    /\ deleteCalls = 0

\* C6: with keepBrowserOpen = false, a browser that was launched has been
\* closed when the run returns, on success, on SSO failure, on token-harvest
\* failure and on every thrown step failure.
C6_BrowserClosed ==
    (pc = "returned" /\ ~keepBrowserOpen /\ browserProc # "none")
        => browserProc = "closed" /\ closeCalls >= 1

\* C6 witness: a step before the token harvest failed, and the run returned
\* with the browser closed by the catch block.
C6_Witness ==
    /\ pc = "returned" /\ ~keepBrowserOpen /\ result = "failed"
    /\ "click1" \in ui /\ polls = 0 /\ ssoCalls = 0
    /\ browserProc = "closed" /\ closeCalls = 1

\* C7 as stated: in every run that obtains a code exactly one backend is
\* consulted, the Graph backend when the address was supplied and the
\* disposable one when the engine created it.
C7_ExactlyOneBackend ==
    AcquisitionDone =>
        /\ Cardinality(consulted) = 1
        /\ emailGiven => consulted = {"graph"}
        /\ tempMailbox => consulted = {"disposable"}

\* C7: at most one backend is consulted in a run and it is never the Graph
\* backend: the disposable backend is consulted exactly when the engine
\* created the address and the run got to the code; with a supplied address
\* no backend is consulted and the code is awaited in the field (manual
\* entry), once.
C7_AtMostDisposable ==
    /\ consulted \subseteq {"disposable"}
    /\ AcquisitionDone => (("disposable" \in consulted) <=> tempMailbox)
    /\ emailGiven => consulted = {} /\ ~tempMailbox
    /\ (emailGiven /\ AcquisitionDone) => manualWaits = 1
    /\ manualWaits <= 1

\* C7 witness: a supplied address with the mail service enabled; the run
\* succeeded on a manually entered code and no backend was asked.
C7_Witness ==
    /\ pc = "returned" /\ result = "success"
    /\ emailGiven /\ mailEnabled /\ manualWaits = 1 /\ consulted = {}

\* C8: when the classifier detects the login heading or the login password
\* field (in the race or in the fallback) the run is on the login branch:
\* its next step is the password, a run that gets past that step has filled
\* and submitted the password, and the name field is never filled nor
\* submitted in that run.
C8_LoginBranch ==
    decidedBy \in LoginDetectors =>
        /\ isLoginFlow
        /\ "fillName" \notin ui /\ "clickNameContinue" \notin ui
        /\ pc \notin {"nameFill", "click2", "regPassword", "click3"}
        /\ PastIdentityStep =>
               {"fillLoginPassword", "clickLoginContinue"} \subseteq ui

\* C8 witness: the race was won by the login password field and the run
\* went on to succeed with the password filled and submitted.
C8_Witness ==
    /\ via = "race" /\ decidedBy = <<"login-password", 0>>
    /\ pc = "returned" /\ result = "success"
    /\ {"fillLoginPassword", "clickLoginContinue"} \subseteq ui

\* C9: the race is decided by the detector whose element became visible
\* first: a name detector gives registration, the heading or the password
\* field gives login, and a detector that becomes visible later does not
\* change the outcome.
C9_FirstVisibleWins ==
    /\ raceState = "fulfilled" => raceValue = firstSettled
    /\ via = "race" =>
           /\ decidedBy = firstSettled
           /\ firstSettled \in Detectors
           /\ isLoginFlow <=> (firstSettled \in LoginDetectors)

\* C9 witness: the login heading was visible first, a name field became
\* visible before the run resumed, and the flow is login.
C9_Witness ==
    /\ via = "race" /\ lateOther
    /\ firstSettled = <<"login", 0>> /\ isLoginFlow
    /\ pc = "loginPassword"

\* C10: the fallback is entered only when the race was rejected; it probes
\* the name selectors in order, then the login heading, then the login
\* password field, the first visible one deciding; with nothing visible
\* after all of them the flow is registration; and a probe, erroring or
\* not, never throws out of the classification nor fails the run.
C10_Decided ==
    via = "fallback" =>
        /\ raceState = "rejected"
        /\ decidedBy[1] = "register" =>
               probesDone = decidedBy[2] /\ ~isLoginFlow
        /\ decidedBy = <<"login", 0>> =>
               probesDone = NumNameSelectors + 1 /\ isLoginFlow
        /\ decidedBy = <<"login-password", 0>> =>
               probesDone = NumNameSelectors + 2 /\ isLoginFlow
        /\ decidedBy = NoDetector =>
               probesDone = NumNameSelectors + 2 /\ ~isLoginFlow

C10_Step ==
    pc = "probe" =>
        /\ pc' \in {"probe", "nameFill", "loginPassword", "codeField"}
        /\ result' = "none"
        /\ pc' # "probe" => via' = "fallback"

C10_FallbackNeverThrows ==
    /\ [](C10_Decided /\ (pc = "probe" => raceState = "rejected"))
    /\ [][C10_Step]_vars

\* C10 witness: every one of the probes errored, and the run goes on as a
\* registration.
C10_Witness ==
    /\ via = "fallback" /\ decidedBy = NoDetector /\ onlyErrors
    /\ probesDone = NumNameSelectors + 2
    /\ pc = "nameFill" /\ result = "none"

\* C11: when the code field appears at once after the first step, the run
\* is classified as login of the direct-verify subtype and goes to the code
\* without the password step.
C11_DirectVerify ==
    (codeFieldAtOnce /\ via # "none") =>
        /\ isLoginFlow /\ isVerifyFlow
        /\ "fillLoginPassword" \notin ui
        /\ pc \notin {"nameFill", "loginPassword", "loginContinue"}

\* C11: what the run does on such a page: no detector finds anything, the
\* default makes it a registration, the name field is never found and the
\* run fails.
C11_Witness ==
    /\ codeFieldAtOnce /\ via = "fallback" /\ decidedBy = NoDetector
    /\ ~isLoginFlow /\ ~isVerifyFlow
    /\ pc = "returned" /\ result = "failed" /\ ~AcquisitionDone

\* A run that was given no address and has no enabled mail service.
NoAddress == ~emailGiven /\ ~mailEnabled
\* A run whose health check of the mail service failed.
Unhealthy == serviceUp = "down"

\* C12: a run started with no address and no enabled mail service, or
\* whose health check fails, goes straight to the failure result: no
\* browser is launched, no mailbox is created (so none is deleted), the
\* page is never touched and nothing is tried a second time.
C12_SetupFailsFast ==
    (pc # "start" /\ (NoAddress \/ Unhealthy)) =>
        /\ pc \in {"catch", "returned"}
        /\ pc = "returned" => result = "failed"
        /\ browserProc = "none" /\ ~browserRef /\ closeCalls = 0
        /\ ~tempMailbox /\ createCalls = 0 /\ deleteCalls = 0
        /\ healthCalls = (IF Unhealthy THEN 1 ELSE 0)
        /\ ui = {} /\ polls = 0 /\ ssoCalls = 0

\* C12 witness: the mail service was enabled but its health check failed,
\* and the run has returned failure.
C12_Witness ==
    /\ Unhealthy /\ healthCalls = 1 /\ mailEnabled /\ ~emailGiven
    /\ pc = "returned" /\ result = "failed" /\ browserProc = "none"

\* The provisioning run of account id in run r failed or threw in this step.
TaskFails(r, id) == taskPc[r][id] = "register" /\ taskPc'[r][id] = "done"

\* C13: when the provisioning run of one task fails or throws, that account
\* and no other is marked 'failed'; every other account keeps its status or
\* is started from the queue, every other task stays where it is, and the
\* loop of the run goes on waiting while anything is queued or in flight and
\* no stop was asked for.  Absent a stop, the run then still ends with every
\* account it took up started once and terminal.
C13_Step(r, id) ==
    TaskFails(r, id) =>
        /\ accounts'[id] = "failed"
        /\ \A j \in Ids \ {id} :
              /\ \/ accounts'[j] = accounts[j]
                 \/ /\ accounts[j] = "pending" /\ accounts'[j] = "registering"
                    /\ j \in SeqToSet(queue[r]) /\ taskPc'[r][j] = "register"
              /\ taskPc'[r][j] # taskPc[r][j] => taskPc[r][j] = "none"
              /\ \A r2 \in RunIds \ {r} : taskPc'[r2][j] = taskPc[r2][j]
        /\ (/\ runPc[r] = "await" /\ ~shouldStop
            /\ (queue[r] # <<>> \/ InFlight(r) > 1))
           => /\ runPc'[r] = "await" /\ isRunning'
              /\ queue[r] # <<>> => taskPc'[r][Head(queue[r])] = "register"

C13_FailureIsLocal ==
    /\ [][\A r \in RunIds, id \in Ids : C13_Step(r, id)]_vars
    /\ (isRunning /\ ~shouldStop /\ \E id \in Ids : accounts[id] = "failed")
          ~> (shouldStop \/ \E r \in RunIds : r = nRuns /\ RunFinished(r))

\* C13 witness: in a run of limit one an account has failed, and the next
\* one, started after that failure, is in flight with another still queued.
C13_Witness ==
    \E r \in RunIds, i \in Ids, j \in Ids :
        /\ runPc[r] = "await" /\ limit[r] = 1 /\ ~shouldStop
        /\ accounts[i] = "failed" /\ taskPc[r][i] = "done"
        /\ taskPc[r][j] = "register" /\ queue[r] # <<>>

\* The state of the orchestrator's state machine a run is in, by the step
\* it stands at: 1 start, 2 mailbox_ready, 3 navigated, 4 classified,
\* 5 registering | logging_in, 6 code_acquired, 7 credentials_submitted,
\* 8 token_harvested, 9 sso_exchanged, 10 done | failed.
Phase(at) ==
    CASE at \in {"idle", "start"} -> 1
      [] at = "launch" -> 2
      [] at \in {"navigate", "fillEmail", "click1"} -> 3
      [] at \in {"race", "probe"} -> 4
      [] at \in {"nameFill", "click2", "loginPassword", "loginContinue"} -> 5
      [] at \in {"codeField", "acquire", "manual", "verifyClick"} -> 6
      [] at \in {"loginReset", "regPassword", "click3"} -> 7
      [] at \in {"harvest", "testLogin", "close"} -> 8
      [] at = "sso" -> 9
      [] at \in {"catch", "returned"} -> 10

\* A step stays in its state, goes to the next one, or leaves to failed.
PhaseStep ==
    \/ Phase(pc') \in {Phase(pc), Phase(pc) + 1}
    \/ pc' = "catch"

\* C14 as stated: the states are visited in order, and on both branches
\* no password is submitted before the verification code was acquired and
\* submitted.
C14_CodeBeforePassword ==
    /\ [][PhaseStep]_vars
    /\ []((\E e \in {"fillLoginPassword", "clickLoginContinue", "fillPassword",
                      "clickPasswordContinue"} : e \in ui)
            => (AcquisitionDone /\ "clickVerify" \in ui))

\* C14: the states are visited in order on both branches.  On the
\* registration branch the code is acquired and submitted before the
\* password is filled and submitted; on the login branch the login password
\* is filled and submitted before the code is acquired, and only the
\* password step that may follow the verification comes after the code.
C14_OrderedStates ==
    /\ [][PhaseStep]_vars
    /\ []((\E e \in {"fillPassword", "fillConfirmPassword",
                      "clickPasswordContinue"} : e \in ui)
            => (AcquisitionDone /\ "clickVerify" \in ui))
    /\ []((isLoginFlow /\ AcquisitionDone)
            => {"fillLoginPassword", "clickLoginContinue"} \subseteq ui)
    /\ []((~isLoginFlow /\ AcquisitionDone)
            => {"fillName", "clickNameContinue"} \subseteq ui)
    /\ [](ssoCalls > 0 => (ssoToken /\ "clickVerify" \in ui))

\* C14 witness: a login run that succeeded: its password went in before
\* the code, and the password step after the verification was taken too.
C14_Witness ==
    /\ isLoginFlow /\ pc = "returned" /\ result = "success"
    /\ {"fillLoginPassword", "clickLoginContinue", "clickVerify",
        "fillPassword", "clickPasswordContinue"} \subseteq ui

C15_Inv ==
    /\ polls <= MaxPolls
    /\ cookieSeen => pc # "harvest"
    /\ (pc # "harvest" /\ (polls = MaxPolls \/ cookieSeen) /\ ~ssoToken)
          => /\ pc \in {"catch", "returned"}
             /\ browserProc = "closed" /\ closeCalls >= 1 /\ ssoCalls = 0
             /\ pc = "returned" => result = "failed"
    /\ ssoToken => cookieSeen
    /\ ssoCalls > 0 => ssoToken

C15_Step ==
    (pc = "harvest" /\ ssoToken') => (pc' = "testLogin" /\ polls' = polls + 1)

C17_FillContract ==
    /\ fAttempts <= fMax /\ fRetryCount <= fAttempts
    /\ fPc # "thrown"
    /\ fPc = "true" => fAttempts = fRetryCount + 1 /\ fTyped = fLen
    /\ fPc = "false" <=> (fPc # "attempt" /\ fPc # "backoff"
                          /\ fRetryCount = fMax /\ fAttempts = fMax)

\* C17: the call that throws: the first attempt failed and the wait before
\* the second rejected.
C17_Witness ==
    /\ fPc = "thrown" /\ fMax >= 2 /\ fAttempts = 1 /\ fRetryCount = 1

\* ------------------------------------------------ claims: the mailed code
MailDone == mPc \in {"code", "timeout", "null"}

\* C18 as stated: in the disposable backend, once an allow-listed message
\* with a code has been visible at the k-th list fetch, no further list fetch
\* is made: the poller is fetching a detail of that list or has returned
\* the code.
C18_ExactlyKFetches ==
    (mBackend = "disposable" /\ mCodeAt > 0) =>
        (mListFetches = mCodeAt /\ mPc \in {"detail", "code"})

\* C18: in the disposable backend, if the first allow-listed message with a
\* code is visible at the k-th list fetch and no detail fetch of that list
\* fails, the call returns the code after exactly k list fetches and at
\* least one detail fetch; whenever a code is returned at least one detail
\* was fetched, and nothing is fetched after the return.
C18_ReturnsAtKthFetch ==
    /\ [](mBackend = "disposable" =>
            /\ (mCodeAt > 0 /\ ~mErrAfter) =>
                   (mListFetches = mCodeAt /\ mPc \in {"detail", "code"})
            /\ mPc = "code" =>
                   (mDetailFetches >= 1 /\ CarriesCode(mList[mIdx])))
    /\ [][mPc = "code" =>
            UNCHANGED <<mListFetches, mDetailFetches, mTokenPosts>>]_vars

\* C18 witness: the code came with the second list fetch and was returned
\* after two list fetches.
C18_Witness ==
    /\ mBackend = "disposable" /\ mPc = "code"
    /\ mCodeAt = 2 /\ mListFetches = 2 /\ mDetailFetches >= 1
    /\ ~mErrAfter

\* C19 as stated: in both backends the only outcome without a code is the
\* timeout result, produced once the wait budget is exhausted.
C19_OnlyTimeout ==
    mPc \in {"timeout", "null"} => mElapsed >= WaitBudget

\* C19: in both backends a failed list or detail fetch is swallowed: the
\* poller goes to sleep one interval and, budget remaining, polls again.
\* The timeout result (thrown in the disposable backend) is produced only
\* once the budget is exhausted; the one other outcome without a code is
\* the null of the Graph backend when its token refresh fails.  The wait
\* always terminates.
C19_ErrorsAreSwallowed ==
    /\ [][/\ mErrors' > mErrors => mPc' = "sleep"
          /\ mPc = "sleep" =>
                (mPc' = "test" /\ mSleeps' = mSleeps + 1)
          /\ (mPc = "test" /\ mElapsed < WaitBudget) =>
                mPc' \in {"list", "token"}
          /\ (mPc' = "null" /\ mPc # "null") =>
                (mBackend = "graph" /\ mPc = "token")]_vars
    /\ [](mPc = "timeout" => mElapsed >= WaitBudget)
    /\ <>MailDone

\* C19 witness: a fetch failed, the poller slept and polled again, and the
\* code was returned by a later poll.
C19_Witness ==
    /\ mErrors >= 1 /\ mSleeps >= 1 /\ mListFetches >= 2
    /\ mPc = "code"

\* C20: Graph backend: when the token request has failed on every endpoint
\* of a poll iteration the call ends at once with null: that iteration
\* makes no list request, nothing sleeps, and the loop is not entered
\* again, even with wait budget left.
C20_TokenFailureIsFatal ==
    /\ [][(mPc = "token" /\ mTry = NumTokenEndpoints
             /\ mTokenPosts' = mTokenPosts + 1 /\ mPc' # "list") =>
            /\ mPc' = "null"
            /\ UNCHANGED <<mListFetches, mSleeps, mElapsed>>]_vars
    /\ [][mPc = "null" => UNCHANGED mailPollVars]_vars
    /\ [](mPc = "null" =>
            /\ mBackend = "graph"
            /\ mListFetches = mSleeps)

\* C20 witness: both endpoints failed in the second iteration, with budget
\* left: one list request and one sleep, both of the first iteration.
C20_Witness ==
    /\ mPc = "null" /\ mElapsed < WaitBudget
    /\ mTry = NumTokenEndpoints /\ mTokenPosts >= NumTokenEndpoints + 1
    /\ mListFetches = 1 /\ mSleeps = 1

\* C21: a code either backend returns comes from a message of an
\* allow-listed sender; the detail of a message of another sender is never
\* fetched (disposable) and no such message is given to extractCode.
C21_OnlyAllowListedSenders ==
    /\ ~mStrayFetch /\ ~mStrayExtract
    /\ mPc = "code" => mList[mIdx] = "awsCode"

\* C21 witness: a code was returned from the second message of a list whose
\* first message, of another sender, carries a code as well.
C21_Witness ==
    /\ mPc = "code" /\ mIdx = 2
    /\ mList[1] = "otherCode" /\ mList[2] = "awsCode"

\* ----------------------------------------------------- claims: extractCode
Returned == xPc = "returned"

\* The first positions of the maximal runs of digits of t, and their lengths.
DigitRunStarts(t) ==
    {p \in 1..Len(t) : t[p] \in Digits /\ (p = 1 \/ t[p - 1] \notin Digits)}
RunLength(t, p) == Skip(t, p, Digits) - p

\* t has a run of six digits or more, and each such run is longer than six
\* or stands right after a '#'.
OnlySpoiledCandidates(t) ==
    /\ \E p \in DigitRunStarts(t) : RunLength(t, p) >= 6
    /\ \A p \in DigitRunStarts(t) :
           RunLength(t, p) >= 6 =>
               (RunLength(t, p) >= 7 \/ (p > 1 /\ t[p - 1] = "#"))

\* A label, one separator and six digits, nothing else.
LabelledTexts ==
    {l \o d : l \in {<<"c", "o", "d", "e", " ", "i", "s", " ">>,
                      <<"c", "o", "d", "e", " ", "i", "s", ":", " ">>},
               d \in {CodeA, CodeB}}

C22_LabelledAndSpoiled ==
    /\ xText \in LabelledTexts =>
           xMatch.code = SubSeq(xText, Len(xText) - 5, Len(xText))
    /\ OnlySpoiledCandidates(xText) => xMatch = NoMatch
    /\ xMatch # NoMatch =>
           /\ Len(xMatch.code) = 6
           /\ \A i \in 1..6 : xMatch.code[i] \in Digits
           /\ \E q \in xMatch.index..(xMatch.last - 5) :
                  xMatch.code = SubSeq(xText, q, q + 5)
           /\ ~Contains(Context(xText, xMatch), <<"#">> \o xMatch.code)
           /\ ~Contains(Context(xText, xMatch), <<"r", "g", "b">>)
           /\ ~Contains(Context(xText, xMatch), <<"h", "s", "l">>)
           /\ ~LongRun(Context(xText, xMatch))

\* C22 as stated: a labelled code is returned; the result is none when the
\* only candidates follow a '#' or lie in a run of seven digits or more; a
\* result is six digits whose context window holds no '#' + code, no
\* color: / rgb / rgba / hsl token and no run of seven digits or more.
C22_NoColourToken ==
    Returned =>
        /\ C22_LabelledAndSpoiled
        /\ xMatch # NoMatch =>
               ~Contains(Context(xText, xMatch),
                         <<"c", "o", "l", "o", "r", ":">>)

\* C22: as above, except that of the colour tokens "color" spoils a match
\* only when six digits follow it in the window with no ';' in between.
C22_ExclusionWindow ==
    Returned =>
        /\ C22_LabelledAndSpoiled
        /\ xMatch # NoMatch => ~ColourDeclaration(Context(xText, xMatch))

\* C22 witness: a code was returned whose window holds a colour declaration
\* that a ';' closes before the match.
C22_Witness ==
    /\ Returned /\ xMatch.code = CodeA
    /\ Contains(Context(xText, xMatch), <<"c", "o", "l", "o", "r", ":">>)

\* Pattern n has a match in t, at any position, that no exclusion spoils.
Acceptable(n, t) ==
    \E p \in 1..Len(t) :
        /\ PatternAt(n, t, p) # NoMatch
        /\ ~Excluded(Context(t, PatternAt(n, t, p)), PatternAt(n, t, p).code)

\* The first pattern, in the order of CODE_PATTERNS, with such a match.
BestPattern(t) ==
    IF \E n \in 1..NumPatterns : Acceptable(n, t)
    THEN SetMin({n \in 1..NumPatterns : Acceptable(n, t)})
    ELSE 0

MatchOf(n, t, m) == \E p \in 1..Len(t) : m = PatternAt(n, t, p)

\* C23: the patterns are tried in the order labelled code, trailing is,
\* lone line, between delimiters: the code returned is that of a match of
\* the first pattern that has an acceptable match at all, wherever in the
\* text the matches stand; so a label-based match beats a bare-digit one,
\* and without an acceptable match nothing is returned.
C23_PatternPriority ==
    Returned =>
        /\ BestPattern(xText) = 0 => xMatch = NoMatch
        /\ BestPattern(xText) # 0 =>
               /\ xMatch # NoMatch
               /\ MatchOf(BestPattern(xText), xText, xMatch)
        /\ ((Acceptable(1, xText) \/ Acceptable(2, xText))
              /\ (Acceptable(3, xText) \/ Acceptable(4, xText))) =>
               (MatchOf(1, xText, xMatch) \/ MatchOf(2, xText, xMatch))

\* C23 witness: a lone line of six digits comes first in the text, a
\* labelled code after it, and the labelled code was returned.
C23_Witness ==
    /\ Returned
    /\ Acceptable(1, xText) /\ Acceptable(3, xText)
    /\ xMatch.code = CodeA /\ xMatch.index > 1
    /\ SubSeq(xText, 1, 6) = CodeB

\* ------------------------------------------------ claims: the fingerprint
\* C24: the platform of a fingerprint of generateSmartFingerprint fits its
\* user agent: an Android agent gets a Linux arm platform, an iPhone agent
\* 'iPhone', an iPad agent 'iPad'.
C24_PlatformMatchesAgent ==
    fpPc = "returned" =>
        /\ fpResult.userAgent = AndroidAgent =>
               fpResult.platform \in {"Linux armv8l", "Linux aarch64"}
        /\ fpResult.userAgent = IPhoneAgent => fpResult.platform = "iPhone"
        /\ fpResult.userAgent = IPadAgent => fpResult.platform = "iPad"
        /\ fpResult.userAgent \in {AndroidAgent, IPhoneAgent, IPadAgent}

\* C24 witness: a fingerprint with an iPad agent and the iPad platform.
C24_Witness ==
    /\ fpPc = "returned"
    /\ fpResult.userAgent = IPadAgent /\ fpResult.platform = "iPad"

\* C32: the platform of a fingerprint of generateRandomFingerprint fits its
\* user agent in the same way.
C32_RandomPlatformMatchesAgent ==
    fpPc = "returned" =>
        \/ /\ fpResult.userAgent = AndroidAgent
           /\ fpResult.platform \in {"Linux armv8l", "Linux aarch64"}
        \/ fpResult.userAgent = IPhoneAgent /\ fpResult.platform = "iPhone"
        \/ fpResult.userAgent = IPadAgent /\ fpResult.platform = "iPad"

\* An iPhone agent with a Linux platform.
C32_Witness ==
    /\ fpPc = "returned"
    /\ fpResult.userAgent = IPhoneAgent /\ fpResult.platform = "Linux armv8l"

\* ------------------------------------------------------ claims: the store
\* C25: after any calls of setConcurrency with integers the stored
\* concurrency is in 1..10: the argument itself when it is in that range,
\* 1 when it is below, 10 when it is above; the limit of every batch run is
\* in 1..10.
C25_ConcurrencyClamped ==
    /\ concurrency \in 1..10
    /\ scArg < 1 => concurrency = 1
    /\ scArg > 10 => concurrency = 10
    /\ scArg \in 1..10 => concurrency = scArg
    /\ \A r \in RunIds : runPc[r] # "idle" => limit[r] \in 1..10

\* C25 witness: a run started after a call with an argument above ten has
\* the limit ten, and the last call had an argument below one.
C25_Witness ==
    /\ scArg = MinConcurrency - 2 /\ concurrency = 1
    /\ \E r \in RunIds : runPc[r] # "idle" /\ limit[r] = 10

\* The moves of one account's status that C26 allows.
StatusMove(a, b) ==
    \/ a = b
    \/ a = "pending" /\ b = "registering"
    \/ a = "registering" /\ b \in {"success", "failed"}

\* C26: the status of an account moves only pending -> registering ->
\* (success | failed), and a status of success, failed or exists never
\* changes again while the account stays in the list (a start that replaces
\* the list apart).
C26_TerminalIsFinal ==
    [][awaitingStart' <= awaitingStart =>
          \A id \in Ids : StatusMove(accounts[id], accounts'[id])]_vars

\* C26 witness: an account is registered by a second run after a first run
\* brought it to success.
C26_Witness ==
    \E id \in Ids, r \in RunIds :
        /\ starts[id] = 2 /\ accounts[id] = "registering"
        /\ taskPc[r][id] \in {"import", "done"}

\* -------------------------------------------- claims: the device-sync channel
\* An attempt of socket s to connect came to its end in this step.
AttemptMade(s) ==
    /\ sockets[s].state \in {"connecting", "reconnecting"}
    /\ sockets'[s] # sockets[s]

\* C27: after a 'device:error' event with the message 'Authentication failed'
\* and until connect() is called again, the service's socket is disconnected
\* and dropped, the heartbeat timer is stopped, neither device:register nor
\* device:heartbeat is emitted, and no socket of the service attempts to
\* connect.
C27_TornDownUntilConnect ==
    [][authFailed' =>
          /\ socket' = 0
          /\ socket # 0 => sockets'[socket].state = "closed"
          /\ ~heartbeatInterval'
          /\ emitted' = <<>>
          /\ authFailed => \A s \in SockIds : ~AttemptMade(s)]_vars

C27_Witness == authFailed /\ socket = 0 /\ heartbeatInterval

IsEmit(e, name, s) == e.event = name /\ e.socket = s

\* C28: on every 'connect' event of the service's socket, the first or after
\* a reconnection, device:register with the stored token is emitted first;
\* every device:heartbeat is emitted on the service's current socket while it
\* is connected, and after the device:register of that connection.
C28_RegisterBeforeHeartbeat ==
    [][/\ \A s \in SockIds :
             (socket = s /\ sockets[s].state # "connected"
                         /\ sockets'[s].state = "connected")
             => /\ emitted' # <<>>
                /\ IsEmit(Head(emitted'), "device:register", s)
                /\ Head(emitted').token = authToken
       /\ \A k \in DOMAIN emitted' :
             emitted'[k].event = "device:heartbeat"
             => LET s == emitted'[k].socket
                IN  /\ s = socket'
                    /\ sockets'[s].state = "connected"
                    /\ \/ \E j \in 1..(k - 1) :
                             IsEmit(emitted'[j], "device:register", s)
                       \/ s \in registered /\ sockets[s].state = "connected"
      ]_vars

\* The service's socket connected again after a loss and emitted
\* device:register, then device:heartbeat.
C28_Witness ==
    /\ socket # 0
    /\ sockets[socket].state = "connected" /\ sockets[socket].again
    /\ Len(emitted) = 2
    /\ IsEmit(emitted[1], "device:register", socket)
    /\ IsEmit(emitted[2], "device:heartbeat", socket)

\* ------------------------------------------- claims: acquiring the mailed code
\* C29 (as stated): waitForManualInput is entered for the code field exactly
\* in the runs that have no mail backend, and the waits started for the code,
\* on a backend or on the field, are one at most.
C29_ManualIffNoBackend ==
    /\ manualWaits > 0 => ~(mailService /\ tempMailbox)
    /\ pc = "verifyClick"
       => (manualWaits > 0 <=> ~(mailService /\ tempMailbox))
    /\ Cardinality(consulted) + manualWaits <= 1

\* C29 (amended): the backend is consulted exactly in the runs that have a
\* mail service and a temporary mailbox; waitForManualInput is entered once
\* at most, and exactly when the backend was not consulted or returned no
\* code, in which case its wait follows the backend's.
C29_ManualUnlessCodeReturned ==
    /\ manualWaits <= 1
    /\ autoCode => mailService /\ tempMailbox /\ manualWaits = 0
    /\ ~(mailService /\ tempMailbox) => consulted = {}
    /\ pc \in {"manual", "verifyClick"} /\ mailService /\ tempMailbox
       => consulted = {"disposable"}
    /\ pc = "manual" => ~autoCode /\ manualWaits = 0
    /\ pc = "verifyClick" => (manualWaits = 1 <=> ~autoCode)

\* The backend returned no code and the code was then typed by hand.
C29_Witness ==
    /\ pc = "verifyClick" /\ mailService /\ tempMailbox
    /\ consulted = {"disposable"} /\ ~autoCode
    /\ manualWaits = 1 /\ codeInField

\* ------------------------------------ claims: the dialog after the harvest
Visible == {i \in DOMAIN buttons : buttons[i].visible}
Confirming == {i \in Visible : IsConfirm(buttons[i])}
ClickResolved == dsFailure \in {"none", "delay"}

\* C30 (as stated): one button at most is clicked: the only visible one, or
\* among several the first visible one that matches the keywords, and none
\* when several are visible and none matches; the block always reaches its
\* break.
C30_NoneWhenNoMatch ==
    dsPc # "harvested"
    => /\ dsPc = "break"
       /\ clickedButton \in Visible \cup {0}
       /\ ClickResolved /\ Cardinality(Visible) = 1
          => clickedButton \in Visible
       /\ ClickResolved /\ Cardinality(Visible) > 1 /\ Confirming # {}
          => clickedButton = SetMin(Confirming)
       /\ Cardinality(Visible) > 1 /\ Confirming = {} => clickedButton = 0

\* C30 (amended): one button at most is clicked: the only visible one, or
\* among several the first visible one whose text contains a keyword, or the
\* first visible one when no text does; none when none is visible or the
\* block threw before the click resolved; the block always reaches its break.
C30_DismissOneButton ==
    dsPc # "harvested"
    => /\ dsPc = "break"
       /\ clickedButton \in Visible \cup {0}
       /\ ~ClickResolved \/ Visible = {} => clickedButton = 0
       /\ ClickResolved /\ Cardinality(Visible) = 1
          => clickedButton \in Visible
       /\ ClickResolved /\ Cardinality(Visible) > 1 /\ Confirming # {}
          => clickedButton = SetMin(Confirming)
       /\ ClickResolved /\ Cardinality(Visible) > 1 /\ Confirming = {}
          => clickedButton = SetMin(Visible)
       /\ dsCaught <=> (dsFailure = "locator"
                          \/ (dsFailure # "none" /\ Visible # {}))

\* Several visible buttons, the first of them without a keyword, a later one
\* with: the later one is clicked.
C30_Witness ==
    /\ dsPc = "break" /\ dsFailure = "none"
    /\ Cardinality(Visible) > 1
    /\ Confirming # {} /\ SetMin(Visible) \notin Confirming
    /\ clickedButton = SetMin(Confirming)

\* ------------------------------------ claims: the end of autoRegisterAWS
\* C31: whenever the temporary mailbox is deleted the run returns, and what
\* it returns is fixed by where the deletion stands (success after the
\* device authorization, failure in the catch block), whether the deletion
\* resolves or throws; no run ends in an exception.
C31_DeletionNeverChangesResult ==
    [][/\ deleteCalls' > deleteCalls
          => /\ pc' = "returned"
             /\ result' = IF pc = "sso" THEN "success" ELSE "failed"
       /\ pc' = "returned" => result' \in {"success", "failed"}]_vars

\* A run whose deletion threw and that returned success.
C31_Witness ==
    /\ pc = "returned" /\ deleteCalls = 1 /\ deleteThrew
    /\ result = "success"

\* ------------------------------------------------ claims: the end of a run
\* C33: when a batch run has ended no task it started is in flight, none of
\* its accounts is 'registering'; also when it ended on a stop request.
C33_NothingInFlightAtRunEnd ==
    \A r \in RunIds :
        runPc[r] = "done" =>
            /\ InFlight(r) = 0
            /\ \A id \in Ids :
                  taskPc[r][id] # "none" => accounts[id] # "registering"

\* A run of limit two ended on a stop request, isRunning is false, and one
\* of its tasks is in flight, its account 'registering'.
C33_Witness ==
    \E r \in RunIds, id \in Ids :
        /\ runPc[r] = "done" /\ limit[r] = 2 /\ shouldStop /\ ~isRunning
        /\ taskPc[r][id] = "register" /\ accounts[id] = "registering"

TotalInFlight == Cardinality({<<r, id>> \in RunIds \X Ids : id \in InFlightIds(r)})

\* C34: whatever the user starts and stops, the tasks in flight, those of
\* ended runs included, are never more than the configured concurrency.
C34_TotalInFlightBounded == TotalInFlight <= concurrency

\* A second run with concurrency 1 has its task in flight next to a task the
\* stopped first run left behind.
C34_Witness ==
    /\ nRuns = 2 /\ concurrency = 1 /\ limit[2] = 1
    /\ runPc[1] = "done" /\ InFlight(1) = 1
    /\ runPc[2] = "await" /\ InFlight(2) = 1

\* --------------------------------------- claims: the confirm click of the code
\* C35: the button that confirms the code is clicked only with a code in the
\* code field, put there by the automatic fill or typed by hand; a run whose
\* automatic fill failed does not get to that click.
C35_ConfirmOnlyAfterCode ==
    /\ "clickVerify" \in ui => codeInField
    /\ pc = "verifyClick" => codeInField

\* The backend returned the code, the fill of the field failed and the
\* confirm button was clicked.
C35_Witness ==
    /\ "clickVerify" \in ui /\ autoCode /\ ~codeInField
    /\ manualWaits = 0

\* ------------------------------------------------ claims: the list of accounts
FiveStatuses == {"pending", "registering", "success", "failed", "exists"}

\* C36: in every state of the store getStats has total = pending + running
\* + success + failed + exists: each account of the list has one of the five
\* statuses and is counted once.
C36_StatsAddUp ==
    /\ getStats.total = getStats.pending + getStats.running + getStats.success
                            + getStats.failed + getStats.exists
    /\ getStats.total = Cardinality(Listed)
    /\ \A id \in Listed : accounts[id] \in FiveStatuses

\* A list with an account in each of four buckets, one of them running.
C36_Witness ==
    /\ getStats.total = NumAccounts
    /\ getStats.running = 1 /\ getStats.success = 1 /\ getStats.failed = 1

\* C37: handleClear changes nothing while isRunning and empties the list
\* otherwise, and no account whose task is in flight is ever taken out of
\* the list.
C37_InFlightNeverCleared ==
    [][/\ clearCalls' > clearCalls
          => removed' = IF isRunning THEN removed ELSE Ids
       /\ \A r \in RunIds : \A id \in InFlightIds(r) : id \notin removed']_vars

\* The list was cleared after a stopped run had ended with a task in flight.
C37_Witness ==
    \E r \in RunIds, id \in Ids :
        /\ id \in removed /\ taskPc[r][id] = "register"
        /\ runPc[r] = "done" /\ ~isRunning

\* ------------------------------------------- claims: the sockets of the service
\* The sockets that are open or attempting to connect.
LiveSockets ==
    {s \in SockIds :
        sockets[s].state \in {"connecting", "reconnecting", "connected"}}

\* C38: after any calls of connect() and disconnect() and any socket events
\* at most one socket of the service is open or attempting to connect, also
\* when connect() is called before the previous socket has connected.
C38_AtMostOneSocket == Cardinality(LiveSockets) <= 1

\* connect() was called a second time while the first socket was connecting:
\* both are live, the service holds the second.
C38_Witness ==
    /\ Cardinality(LiveSockets) = 2
    /\ socket # 0 /\ LiveSockets # {socket}

\* C39: while the service's current socket is connected a heartbeat timer
\* is active; no event of an earlier socket stops it.
C39_HeartbeatWhileConnected == Connected(socket, sockets) => heartbeatInterval

\* The current socket is connected with no timer, after an earlier socket
\* lost its connection.
C39_Witness ==
    /\ Connected(socket, sockets) /\ ~heartbeatInterval
    /\ \E s \in SockIds \ {socket} :
          sockets[s].state \in {"reconnecting", "closed"}

====
